---- MODULE Spec2Model ----
(***************************************************************************)
(* Model of the auto_categorise pipeline: the rule engine (rules.py), the  *)
(* signal extractors (signals.py), score fusion (fuse.py), the             *)
(* categorization orchestrator (resolver.py), the category filter          *)
(* (source_of_truth.py), the document store (db.py) and the entity role    *)
(* inference (entity_role_infer.py).                                       *)
(*                                                                         *)
(* Conventions.                                                            *)
(*  - The scores the code computes are Python floats, modelled bit for bit *)
(*    (see "Python floats" below).  A number the code writes as a decimal  *)
(*    literal or rounds to three decimals is an integer number of          *)
(*    1/10000ths (0 .. 10000), a weight an integer number of hundredths;   *)
(*    the float of such a number n/d is FromRatio(n, d).                   *)
(*  - A filename is a sequence of one-character strings.                   *)
(*  - A text is known by the set of regular expressions of rules.py that   *)
(*    find a match in it (rx) and the set of catalog keywords it contains  *)
(*    (kw); the empty text has both sets empty.                            *)
(*  - None stands for Python's None / SQL NULL.                            *)
(***************************************************************************)
EXTENDS Integers, Sequences, FiniteSets, TLC

None == "None"

\* None where a record is expected
Nil == [nil |-> TRUE]

\* None where a number is expected
NoNumber == 0 - 1

Scale == 100 * 100

Max(a, b) == IF a >= b THEN a ELSE b

Min(a, b) == IF a <= b THEN a ELSE b

RangeOf(s) == {s[i] : i \in 1..Len(s)}

(***************************************************************************)
(* Python floats (IEEE 754 binary64, round to nearest, ties to even)       *)
(*                                                                         *)
(* A float that is not negative is <<e, m3, m2, m1, m0>>: the number       *)
(* (m3 * 2^42 + m2 * 2^28 + m1 * 2^14 + m0) * 2^e, its 53-bit significand  *)
(* cut into limbs of 14 bits with 2^10 <= m3 < 2^11; 0.0 is ZeroF. The     *)
(* order of two floats is the order of their tuples, read left to right.   *)
(* Every operation forms the exact result as a wide integer of eight       *)
(* limbs, least first, and rounds it once.                                 *)
(***************************************************************************)
\* the size of a limb: 2^14
LimbBase == 2^14

\* 2^0 .. 2^14, at positions 1 .. 15
Pow2 == <<1, 2, 4, 8, 16, 32, 64, 128, 256, 512, 1024, 2048, 4096, 8192, 16384>>

\* 0.0
ZeroF == <<0 - 9999, 0, 0, 0, 0>>

\* x < y and x <= y on floats
LtF(x, y) ==
    \E i \in 1..5 : x[i] < y[i] /\ \A j \in 1..(i - 1) : x[j] = y[j]

LeF(x, y) == x = y \/ LtF(x, y)

\* max(x, y) and min(x, y) as Python computes them: the first argument on a tie
MaxF(x, y) == IF LtF(x, y) THEN y ELSE x

MinF(x, y) == IF LtF(y, x) THEN y ELSE x

\* limb i of a wide integer, 0 outside it
LimbAt(w, i) == IF i >= 1 /\ i <= Len(w) THEN w[i] ELSE 0

\* the number of bits of a limb that is not 0
BitLen(v) == CHOOSE k \in 1..14 : Pow2[k] <= v /\ v < Pow2[k + 1]

\* the significand plus one unit in the last place
NextUp(e, m3, m2, m1, m0) ==
    IF m0 + 1 < LimbBase THEN <<e, m3, m2, m1, m0 + 1>>
    ELSE IF m1 + 1 < LimbBase THEN <<e, m3, m2, m1 + 1, 0>>
    ELSE IF m2 + 1 < LimbBase THEN <<e, m3, m2 + 1, 0, 0>>
    ELSE IF m3 + 1 < 2048 THEN <<e, m3 + 1, 0, 0, 0>>
    ELSE <<e + 1, 1024, 0, 0, 0>>

\* Round53 when limb lo of w is the lowest that reaches into the significand and
\* loses its s lowest bits
RoundAt(e, w, sticky, lo, s) ==
    LET p  == Pow2[s + 1]
        up == Pow2[14 - s + 1]
        v0 == LimbAt(w, lo)
        v1 == LimbAt(w, lo + 1)
        v2 == LimbAt(w, lo + 2)
        v3 == LimbAt(w, lo + 3)
        v4 == LimbAt(w, lo + 4)
        m0 == (v0 \div p) + (v1 % p) * up
        m1 == (v1 \div p) + (v2 % p) * up
        m2 == (v2 \div p) + (v3 % p) * up
        m3 == (v3 \div p) + (v4 % p) * up
        lost == (v0 % p) * LimbBase + LimbAt(w, lo - 1)
        half == p * (LimbBase \div 2)
        rest == sticky \/ \E i \in 1..(lo - 2) : w[i] # 0
        e2 == e + 14 * (lo - 1) + s
    IN  IF lost > half \/ (lost = half /\ (rest \/ m0 % 2 = 1))
        THEN NextUp(e2, m3, m2, m1, m0)
        ELSE <<e2, m3, m2, m1, m0>>

\* the highest limb of w that is not 0, w not being 0
TopLimb(w) == CHOOSE i \in 1..Len(w) : w[i] # 0 /\ \A j \in (i + 1)..Len(w) : w[j] = 0

\* RoundAt for the highest limb t of w, of k bits
RoundFrom(e, w, sticky, t, k) ==
    IF k >= 11 THEN RoundAt(e, w, sticky, t - 3, k - 11)
    ELSE RoundAt(e, w, sticky, t - 4, k + 3)

\* the float nearest to (w + f) * 2^e, where w is a wide integer and f is a fraction
\* with 0 < f < 1 when sticky holds and 0 otherwise; on a tie the even significand
Round53(e, w, sticky) ==
    IF \A i \in 1..Len(w) : w[i] = 0 THEN ZeroF
    ELSE RoundFrom(e, w, sticky, TopLimb(w), BitLen(w[TopLimb(w)]))

\* float(n) for an integer 0 <= n < 2^28
FromInt(n) == Round53(0, <<n % LimbBase, n \div LimbBase>>, FALSE)

\* x * y
MulF(x, y) ==
    IF x = ZeroF \/ y = ZeroF THEN ZeroF
    ELSE
    LET t0 == x[5] * y[5]
        t1 == x[5] * y[4] + x[4] * y[5] + t0 \div LimbBase
        t2 == x[5] * y[3] + x[4] * y[4] + x[3] * y[5] + t1 \div LimbBase
        t3 == x[5] * y[2] + x[4] * y[3] + x[3] * y[4] + x[2] * y[5] + t2 \div LimbBase
        t4 == x[4] * y[2] + x[3] * y[3] + x[2] * y[4] + t3 \div LimbBase
        t5 == x[3] * y[2] + x[2] * y[3] + t4 \div LimbBase
        t6 == x[2] * y[2] + t5 \div LimbBase
    IN  Round53(x[1] + y[1],
                <<t0 % LimbBase, t1 % LimbBase, t2 % LimbBase, t3 % LimbBase,
                  t4 % LimbBase, t5 % LimbBase, t6 % LimbBase, t6 \div LimbBase>>,
                FALSE)

\* the significand of x times 2^sh, 0 <= sh <= 55, as a wide integer
Widen(x, sh) ==
    LET q  == sh \div 14
        p  == Pow2[(sh % 14) + 1]
        u0 == x[5] * p
        u1 == x[4] * p + u0 \div LimbBase
        u2 == x[3] * p + u1 \div LimbBase
        u3 == x[2] * p + u2 \div LimbBase
        u  == <<u0 % LimbBase, u1 % LimbBase, u2 % LimbBase, u3 % LimbBase,
                u3 \div LimbBase>>
    IN  <<LimbAt(u, 1 - q), LimbAt(u, 2 - q), LimbAt(u, 3 - q), LimbAt(u, 4 - q),
          LimbAt(u, 5 - q), LimbAt(u, 6 - q), LimbAt(u, 7 - q), LimbAt(u, 8 - q)>>

\* the wide integer w plus the significand of y, at the exponent of y
SumWide(w, y) ==
    LET t1 == w[1] + y[5]
        t2 == w[2] + y[4] + t1 \div LimbBase
        t3 == w[3] + y[3] + t2 \div LimbBase
        t4 == w[4] + y[2] + t3 \div LimbBase
        t5 == w[5] + t4 \div LimbBase
        t6 == w[6] + t5 \div LimbBase
        t7 == w[7] + t6 \div LimbBase
        t8 == w[8] + t7 \div LimbBase
    IN  Round53(y[1],
                <<t1 % LimbBase, t2 % LimbBase, t3 % LimbBase, t4 % LimbBase,
                  t5 % LimbBase, t6 % LimbBase, t7 % LimbBase, t8>>,
                FALSE)

\* the larger float plus the smaller one
AddOrdered(x, y) ==
    IF y = ZeroF \/ x[1] - y[1] > 55 THEN x
    ELSE SumWide(Widen(x, x[1] - y[1]), y)

\* x + y
AddF(x, y) == IF LtF(x, y) THEN AddOrdered(y, x) ELSE AddOrdered(x, y)

\* the wide integer w minus the significand of y, at the exponent of y
DiffWide(w, y) ==
    LET \* each limb borrows one from the next and gives it back when it did not need it
        t1 == w[1] - y[5] + LimbBase
        t2 == w[2] - y[4] + LimbBase - 1 + t1 \div LimbBase
        t3 == w[3] - y[3] + LimbBase - 1 + t2 \div LimbBase
        t4 == w[4] - y[2] + LimbBase - 1 + t3 \div LimbBase
        t5 == w[5] + LimbBase - 1 + t4 \div LimbBase
        t6 == w[6] + LimbBase - 1 + t5 \div LimbBase
        t7 == w[7] + LimbBase - 1 + t6 \div LimbBase
        t8 == w[8] - 1 + t7 \div LimbBase
    IN  Round53(y[1],
                <<t1 % LimbBase, t2 % LimbBase, t3 % LimbBase, t4 % LimbBase,
                  t5 % LimbBase, t6 % LimbBase, t7 % LimbBase, t8>>,
                FALSE)

\* x - y for x >= y
SubF(x, y) ==
    IF y = ZeroF \/ x[1] - y[1] > 55 THEN x
    ELSE DiffWide(Widen(x, x[1] - y[1]), y)

\* d * y for a digit d and the four limbs y, least first, as five limbs
TimesDigit(d, y) ==
    LET t0 == d * y[1]
        t1 == d * y[2] + t0 \div LimbBase
        t2 == d * y[3] + t1 \div LimbBase
        t3 == d * y[4] + t2 \div LimbBase
    IN  <<t0 % LimbBase, t1 % LimbBase, t2 % LimbBase, t3 % LimbBase, t3 \div LimbBase>>

\* a <= b on wide integers of five limbs
LeWide(a, b) ==
    \/ a = b
    \/ \E i \in 1..5 : a[i] < b[i] /\ \A j \in (i + 1)..5 : a[j] = b[j]

\* b - a on wide integers of five limbs, a <= b; the difference fits four limbs
MinusWide(b, a) ==
    LET t1 == b[1] - a[1] + LimbBase
        t2 == b[2] - a[2] + LimbBase - 1 + t1 \div LimbBase
        t3 == b[3] - a[3] + LimbBase - 1 + t2 \div LimbBase
        t4 == b[4] - a[4] + LimbBase - 1 + t3 \div LimbBase
    IN  <<t1 % LimbBase, t2 % LimbBase, t3 % LimbBase, t4 % LimbBase>>

\* the next digit of the quotient of n by y, from its estimate top, which is at most
\* two too large
DigitFrom(top, n, y) ==
    IF LeWide(TimesDigit(top, y), n) THEN top
    ELSE IF LeWide(TimesDigit(top - 1, y), n) THEN top - 1
    ELSE top - 2

\* the digit d and the remainder n - d * y
StepWith(d, n, y) == <<d, MinusWide(n, TimesDigit(d, y))>>

\* one step of the long division by y (four limbs, the highest at least 2^13): the
\* next digit of the quotient and the remainder, from the remainder r before it
DivStep(r, y) ==
    StepWith(DigitFrom(Min(LimbBase - 1, (r[4] * LimbBase + r[3]) \div y[4]),
                       <<0, r[1], r[2], r[3], r[4]>>, y),
             <<0, r[1], r[2], r[3], r[4]>>, y)

\* k steps of the long division by y from the remainder r: the digits found, the
\* least first, after the digits found before, and the last remainder
RECURSIVE LongDiv(_, _, _, _)
LongDiv(r, y, k, digits) ==
    IF k = 0 THEN <<digits, r>>
    ELSE LET s == DivStep(r, y)
         IN  LongDiv(s[2], y, k - 1, <<s[1]>> \o digits)

\* the float of (a / b) * 2^(e + 56) for wide integers of four limbs with
\* b <= a * 2^14 and a < 2 * b
Quotient(a, b, e) ==
    LET d5 == b \o <<0>>
        n  == a \o <<0>>
        q4 == IF LeWide(d5, n) THEN 1 ELSE 0
        r4 == IF q4 = 1 THEN MinusWide(n, d5) ELSE a
        s  == LongDiv(r4, b, 4, << >>)
    IN  Round53(e, s[1] \o <<q4>>, s[2] # <<0, 0, 0, 0>>)

\* x / y for y # 0.0
DivF(x, y) ==
    IF x = ZeroF THEN ZeroF
    ELSE
    \* both significands times 8, so that the divisor's highest limb has 14 bits
    Quotient(SubSeq(Widen(x, 3), 1, 4), SubSeq(Widen(y, 3), 1, 4), x[1] - y[1] - 56)

\* p / q for integers 0 <= p < 2^28 and 0 < q < 2^14, the float nearest to the
\* quotient: Python's true division, and the float of a decimal literal p/q. p is
\* divided digit by digit, five limbs past the point.
FromRatio(p, q) ==
    LET c1 == p \div LimbBase
        c2 == (c1 % q) * LimbBase + (p % LimbBase)
        c3 == (c2 % q) * LimbBase
        c4 == (c3 % q) * LimbBase
        c5 == (c4 % q) * LimbBase
        c6 == (c5 % q) * LimbBase
        c7 == (c6 % q) * LimbBase
    IN  Round53(0 - 70,
                <<c7 \div q, c6 \div q, c5 \div q, c4 \div q, c3 \div q, c2 \div q,
                  c1 \div q>>,
                c7 % q # 0)

\* round(x, 3) for 0 <= x < 2, in 1/10000ths: the multiple of 1/1000 nearest to the
\* exact value of the float x, the even one on a tie
Round3(x) ==
    IF x = ZeroF THEN 0
    ELSE
    LET w    == TimesDigit(1000, <<x[5], x[4], x[3], x[2]>>)
        sh   == 0 - x[1]
        lo   == sh \div 14 + 1
        p    == Pow2[(sh % 14) + 1]
        whole == (LimbAt(w, lo) \div p) + LimbAt(w, lo + 1) * Pow2[14 - (sh % 14) + 1]
        lost == (LimbAt(w, lo) % p) * LimbBase + LimbAt(w, lo - 1)
        half == p * (LimbBase \div 2)
        rest == \E i \in 1..(lo - 2) : LimbAt(w, i) # 0
    IN  IF lost > half \/ (lost = half /\ (rest \/ whole % 2 = 1))
        THEN (whole + 1) * 10
        ELSE whole * 10

(***************************************************************************)
(* Characters and filenames                                                *)
(***************************************************************************)
UpperChars == <<"A","B","C","D","E","F","G","H","I","J","K","L","M",
                "N","O","P","Q","R","S","T","U","V","W","X","Y","Z">>

LowerChars == <<"a","b","c","d","e","f","g","h","i","j","k","l","m",
                "n","o","p","q","r","s","t","u","v","w","x","y","z">>

DigitChars == {"0","1","2","3","4","5","6","7","8","9"}

\* str.lower() on one character
LowerChar(c) ==
    IF \E i \in 1..26 : UpperChars[i] = c
    THEN LowerChars[CHOOSE i \in 1..26 : UpperChars[i] = c]
    ELSE c

\* str.lower()
Lower(s) == [i \in 1..Len(s) |-> LowerChar(s[i])]

AlnumChars == RangeOf(UpperChars) \cup RangeOf(LowerChars) \cup DigitChars

\* [A-Za-z0-9]
IsAlnum(c) == c \in AlnumChars

IsSuffix(t, s) ==
    /\ Len(t) <= Len(s)
    /\ \A i \in 1..Len(t) : s[Len(s) - Len(t) + i] = t[i]

\* `t in s` for strings
Contains(s, t) ==
    \E k \in 0..(Len(s) - Len(t)) : \A i \in 1..Len(t) : s[k + i] = t[i]

\* the alternatives of \.(pdf|png|jpg|jpeg|tif|tiff|docx?)$
Extensions == { <<".","p","d","f">>, <<".","p","n","g">>, <<".","j","p","g">>,
                <<".","j","p","e","g">>, <<".","t","i","f">>, <<".","t","i","f","f">>,
                <<".","d","o","c">>, <<".","d","o","c","x">> }

\* s without the extension it ends with, if any
CutExt(s) ==
    IF \E e \in Extensions : IsSuffix(e, s)
    THEN LET e == CHOOSE x \in Extensions : IsSuffix(x, s)
         IN  SubSeq(s, 1, Len(s) - Len(e))
    ELSE s

\* re.sub(r"\.(pdf|png|jpg|jpeg|tif|tiff|docx?)$", "", base): $ matches at the end
\* of the string and also just before a line feed that ends it, and the line feed
\* stays
StripExt(s) ==
    IF \E e \in Extensions : IsSuffix(e, s) THEN CutExt(s)
    ELSE IF Len(s) > 0 /\ s[Len(s)] = "\n"
         THEN CutExt(SubSeq(s, 1, Len(s) - 1)) \o <<"\n">>
         ELSE s

\* name.rsplit("/", 1)[-1]
AfterLastSlash(s) ==
    IF \E i \in 1..Len(s) : s[i] = "/"
    THEN LET k == CHOOSE i \in 1..Len(s) : s[i] = "/" /\ \A j \in (i+1)..Len(s) : s[j] # "/"
         IN  SubSeq(s, k + 1, Len(s))
    ELSE s

\* set(_WORD.findall(base)): the maximal runs of [A-Za-z0-9]
Tokens(s) ==
    LET starts == {i \in 1..Len(s) : IsAlnum(s[i]) /\ (i = 1 \/ ~IsAlnum(s[i - 1]))}
        ends   == {i \in 1..Len(s) : IsAlnum(s[i]) /\ (i = Len(s) \/ ~IsAlnum(s[i + 1]))}
        EndOf(a) == CHOOSE b \in ends : b >= a /\ \A e \in ends : e >= a => b <= e
    IN  {SubSeq(s, a, EndOf(a)) : a \in starts}

GENERIC_TOKENS == { <<"s","c","a","n">>, <<"s","c","a","n","n","e","d">>,
                    <<"d","o","c","u","m","e","n","t">>, <<"d","o","c">>,
                    <<"f","i","l","e">>, <<"n","e","w">>,
                    <<"u","n","t","i","t","l","e","d">>, <<"i","m","a","g","e">>,
                    <<"i","m","g">>, <<"p","h","o","t","o">> }

DigitCount(s) == Cardinality({i \in 1..Len(s) : s[i] \in DigitChars})

is_generic_filename(name) ==
    LET base == StripExt(Lower(AfterLastSlash(name)))
        toks == Tokens(base)
    IN  IF toks = {} THEN TRUE
        ELSE IF toks \cap GENERIC_TOKENS # {} THEN TRUE
        ELSE IF Len(base) <= 6 THEN TRUE
        \* digits / max(1, len(base)) > 0.6
        ELSE IF DigitCount(base) * 10 > 6 * Max(1, Len(base)) THEN TRUE
        ELSE FALSE

(***************************************************************************)
(* rules.py: the rule engine                                               *)
(***************************************************************************)
\* filename spelled as characters, for the token tables
tok_gst  == <<"g","s","t">>

tok_tan  == <<"t","a","n">>

tok_lei  == <<"l","e","i">>

tok_rera == <<"r","e","r","a">>

tok_hmda == <<"h","m","d","a">>

tok_aai  == <<"a","a","i">>

tok_moa  == <<"m","o","a">>

tok_aoa  == <<"a","o","a">>

tok_coi  == <<"c","o","i">>

tok_statement == <<"s","t","a","t","e","m","e","n","t">>

tok_accountstatement == <<"a","c","c","o","u","n","t">> \o tok_statement

\* slug -> regex list, in the table's (dict) order
TEXT_RULES == <<
    [slug |-> "directors_pan_aadhaar",  regs |-> <<"PAN_RX", "AADHAAR_RX">>],
    [slug |-> "dev_company_gst_pan",    regs |-> <<"GSTIN_RX">>],
    [slug |-> "dev_company_tan",        regs |-> <<"TAN_RX">>],
    [slug |-> "dev_company_lei",        regs |-> <<"LEI_RX">>],
    [slug |-> "dev_company_moa_aoa_incorp",   regs |-> <<"MOA_RX", "AOA_RX">>],
    [slug |-> "group_company_moa_aoa_incorp", regs |-> <<"MOA_RX", "AOA_RX">>],
    [slug |-> "dev_llp_agreement_incorp",     regs |-> <<"LLPIN_RX", "COI_RX">>],
    [slug |-> "dev_partnership_deed_registration", regs |-> <<"PDEED_RX">>],
    [slug |-> "ts_hmda_dc_letter",        regs |-> <<"HMDA_RX", "DC_RX">>],
    [slug |-> "ts_building_permit_order", regs |-> <<"BPO_RX">>],
    [slug |-> "ts_provisional_fire_noc",  regs |-> <<"FIRE_RX">>],
    [slug |-> "ts_pollution_noc",         regs |-> <<"PCB_RX">>],
    [slug |-> "ts_airport_authority",     regs |-> <<"AAI_RX">>],
    [slug |-> "ts_rera_certificate",      regs |-> <<"RERA_RX">>],
    [slug |-> "ts_permission_water_supply", regs |-> <<"HMWS_RX">>],
    [slug |-> "ka_commencement_letter",   regs |-> <<"COMMENCE_RX">>],
    [slug |-> "ka_provisional_fire_noc",  regs |-> <<"FIRE_RX">>],
    [slug |-> "ka_pollution_noc",         regs |-> <<"PCB_RX">>],
    [slug |-> "ka_airport_authority",     regs |-> <<"AAI_RX">>],
    [slug |-> "ka_rera",                  regs |-> <<"RERA_RX">>],
    [slug |-> "ka_permission_water_supply", regs |-> <<"BWSSB_RX">>],
    [slug |-> "ka_bescom",                regs |-> <<"BESCOM_RX">>],
    [slug |-> "ka_bsnl",                  regs |-> <<"BSNL_RX">>],
    [slug |-> "legal_certified_ec",       regs |-> <<"EC_RX">>],
    [slug |-> "legal_pahanies",           regs |-> <<"PAHANI_RX">>],
    [slug |-> "legal_passbooks",          regs |-> <<"PASSBOOK_RX">>],
    [slug |-> "land_ts_dagpa",            regs |-> <<"DAGPA_RX">>],
    [slug |-> "land_ka_jda",              regs |-> <<"JDA_RX">>],
    [slug |-> "land_ka_gpa",              regs |-> <<"GPA_RX">>],
    [slug |-> "land_ts_nala",             regs |-> <<"NALA_RX">>],
    [slug |-> "land_ts_land_use_certificate", regs |-> <<"LUC_RX">>],
    [slug |-> "land_ts_tdr",              regs |-> <<"TDR_RX">>],
    [slug |-> "land_ka_tdr",              regs |-> <<"TDR_RX">> ] >>

\* filename token -> candidate slugs, in tokenmap's (dict) order
FILENAME_HINTS == <<
    [token |-> tok_gst,  name |-> "gst",
     slugs |-> <<"dev_company_gst_pan", "group_company_gst_pan", "dev_llp_gst_pan", "dev_partnership_gst_pan">>],
    [token |-> tok_tan,  name |-> "tan",
     slugs |-> <<"dev_company_tan", "dev_llp_tan", "dev_partnership_tan">>],
    [token |-> tok_lei,  name |-> "lei",
     slugs |-> <<"dev_company_lei", "dev_llp_lei", "dev_partnership_lei">>],
    [token |-> tok_rera, name |-> "rera",
     slugs |-> <<"ts_rera_certificate", "ka_rera">>],
    [token |-> tok_hmda, name |-> "hmda",
     slugs |-> <<"ts_hmda_dc_letter">>],
    [token |-> tok_aai,  name |-> "aai",
     slugs |-> <<"ts_airport_authority", "ka_airport_authority">>],
    [token |-> tok_moa,  name |-> "moa",
     slugs |-> <<"dev_company_moa_aoa_incorp", "group_company_moa_aoa_incorp">>],
    [token |-> tok_aoa,  name |-> "aoa",
     slugs |-> <<"dev_company_moa_aoa_incorp", "group_company_moa_aoa_incorp">>],
    [token |-> tok_coi,  name |-> "coi",
     slugs |-> <<"dev_llp_agreement_incorp">>],
    [token |-> tok_accountstatement, name |-> "accountstatement",
     slugs |-> <<"dev_company_bank_stmt", "dev_llp_bank_stmt", "dev_partnership_bank_stmt", "directors_bank_stmt_1y">>],
    [token |-> tok_statement, name |-> "statement",
     slugs |-> <<"dev_company_bank_stmt", "dev_llp_bank_stmt", "dev_partnership_bank_stmt", "directors_bank_stmt_1y">>] >>

\* the cap of _add_hit
HIT_CAP == 9500

\* the emission threshold of a text rule
TEXT_RULE_MIN == 8000

\* the first matching detector's contribution
FIRST_MATCH == 5000

\* each further matching detector's contribution
NEXT_MATCH == 2500

\* the bank-statement router's score
BANK_SCORE == 9000

\* a filename hint's score
HINT_SCORE == 8500

\* hits.append((slug, min(0.95, score), why))
_add_hit(hits, slug, score, why) ==
    Append(hits, [slug |-> slug, score |-> Min(HIT_CAP, score), why |-> why])

\* local += 0.5 if local == 0.0 else 0.25
AddMatch(local) == local + (IF local = 0 THEN FIRST_MATCH ELSE NEXT_MATCH)

\* the inner loop over one slug's detectors: the local score after regs[i..]
RECURSIVE LocalScore(_, _, _, _)
LocalScore(regs, rx, i, local) ==
    IF i > Len(regs) THEN local
    ELSE LocalScore(regs, rx, i + 1, IF regs[i] \in rx THEN AddMatch(local) ELSE local)

\* a slip of the threshold: two detectors are enough
TextRuleFires_two_suffice(local) == local >= FIRST_MATCH + NEXT_MATCH

\* if local >= 0.8
TextRuleFires(local) == local >= TEXT_RULE_MIN

\* the outer loop over TEXT_RULES
RECURSIVE TextHits(_, _, _)
TextHits(rx, k, hits) ==
    IF k > Len(TEXT_RULES) THEN hits
    ELSE LET local == LocalScore(TEXT_RULES[k].regs, rx, 1, 0)
         IN  TextHits(rx, k + 1,
                 IF TextRuleFires(local)
                 THEN _add_hit(hits, TEXT_RULES[k].slug, local, <<"text", TEXT_RULES[k].slug>>)
                 ELSE hits)

BANK_ENTITY_SLUGS == <<"dev_company_bank_stmt", "dev_llp_bank_stmt", "dev_partnership_bank_stmt">>

RECURSIVE AddAll(_, _, _, _, _)
AddAll(hits, slugs, i, score, why) ==
    IF i > Len(slugs) THEN hits
    ELSE AddAll(_add_hit(hits, slugs[i], score, why), slugs, i + 1, score, why)

\* a slip of the router: a CIN in the text is not taken for a corporate marker
_bank_router_without_cin(rx) ==
    IF "BANK_STMT_RX" \notin rx THEN << >>
    ELSE IF \/ "COMPANY_MARKERS_RX" \in rx
            \/ "GSTIN_RX" \in rx
            \/ "LLPIN_RX" \in rx
         THEN AddAll(<< >>, BANK_ENTITY_SLUGS, 1, BANK_SCORE, <<"bank", "corporate markers">>)
         ELSE _add_hit(<< >>, "directors_bank_stmt_1y", BANK_SCORE, <<"bank", "no corporate markers">>)

_bank_router(rx) ==
    IF "BANK_STMT_RX" \notin rx THEN << >>
    ELSE IF \/ "COMPANY_MARKERS_RX" \in rx
            \/ "GSTIN_RX" \in rx
            \/ "CIN_RX" \in rx
            \/ "LLPIN_RX" \in rx
         THEN AddAll(<< >>, BANK_ENTITY_SLUGS, 1, BANK_SCORE, <<"bank", "corporate markers">>)
         ELSE _add_hit(<< >>, "directors_bank_stmt_1y", BANK_SCORE, <<"bank", "no corporate markers">>)

\* the loop over tokenmap
RECURSIVE FilenameHits(_, _, _)
FilenameHits(base, k, hits) ==
    IF k > Len(FILENAME_HINTS) THEN hits
    ELSE FilenameHits(base, k + 1,
             IF Contains(base, FILENAME_HINTS[k].token)
             THEN AddAll(hits, FILENAME_HINTS[k].slugs, 1, HINT_SCORE,
                         <<"filename", FILENAME_HINTS[k].name>>)
             ELSE hits)

\* the hits of the three layers, pooled in order: text rules, bank router, filename hints
rules_from_text_and_filename(rx, filename) ==
    LET h1 == TextHits(rx, 1, << >>)
        h2 == h1 \o _bank_router(rx)
        base == StripExt(Lower(filename))
    IN  FilenameHits(base, 1, h2)

\* max(rule_hits, key=lambda x: x[1]) if rule_hits else None: the first hit of maximum score
rule_best_of(hits) ==
    IF hits = << >> THEN Nil
    ELSE hits[CHOOSE i \in 1..Len(hits) :
                 /\ \A j \in 1..Len(hits) : hits[j].score <= hits[i].score
                 /\ \A j \in 1..(i-1) : hits[j].score < hits[i].score]


(***************************************************************************)
(* signals.py and fuse.py: the three signals and their fusion              *)
(***************************************************************************)
\* chunks[:k]
FirstChunks(chunks, k) == SubSeq(chunks, 1, Min(k, Len(chunks)))

\* _norm01(x, lo, hi)
_norm01(x, lo, hi) ==
    IF LeF(hi, lo) THEN ZeroF
    ELSE DivF(SubF(MaxF(lo, MinF(hi, x)), lo), SubF(hi, lo))

\* score_filename: best / 100.0, best being the largest rapidfuzz ratio (a whole
\* percentage in the samples)
score_filename(best) == FromRatio(best, 100)

\* the ends of the keyword-proportion normalisation: 0.0 and 0.6
KW_LO == ZeroF

KW_HI == FromRatio(6, 10)

\* the number of leading chunks the resolver hands to score_keywords
KW_TOP_K == 6

\* the keywords and synonyms found in " ".join(ch[1] for ch in win).lower(): those
\* inside one chunk and those that run over a join and end inside the window
JoinedKw(win) ==
    UNION {win[i].kw : i \in 1..Len(win)}
    \cup {o.kw : o \in {x \in UNION {win[i].kw_over : i \in 1..Len(win)} :
                            \E i \in 1..Len(win) : x \in win[i].kw_over
                                                    /\ i + x.span <= Len(win)}}

\* score_keywords(chunks, cat, top_k)
score_keywords(chunks, cat, top_k) ==
    LET kws == cat.keywords \o cat.synonyms
    IN
    IF kws = << >> THEN ZeroF
    ELSE LET win  == FirstChunks(chunks, top_k)
             text == JoinedKw(win)
             hits == Cardinality({i \in 1..Len(kws) : kws[i] # "" /\ kws[i] \in text})
             prop == FromRatio(hits, Max(1, Len(kws)))
         IN  _norm01(prop, KW_LO, KW_HI)

\* the number of leading chunks averaged into the document vector
VEC_MAX_CHUNKS == 8

\* doc_vector_mean(chunks, max_chunks): TRUE when a vector results, FALSE for None
doc_vector_mean(chunks, max_chunks) ==
    LET win == FirstChunks(chunks, max_chunks)
    IN  \E i \in 1..Len(win) : win[i].emb

\* the cosine floor and ceiling of score_embeddings: 0.2 and 0.9
COS_LO == FromRatio(2, 10)

COS_HI == FromRatio(9, 10)

\* score_embeddings(doc_vec, cat_vec): 0.0 when either vector is None; cos is the
\* float cosine() returns
score_embeddings(has_doc_vec, has_cat_vec, cos) ==
    IF ~has_doc_vec \/ ~has_cat_vec THEN ZeroF
    ELSE _norm01(cos, COS_LO, COS_HI)

\* 1.0
OneF == FromInt(1)

\* the floats of the weight literals 0.20, 0.30 and 0.40
F_LIGHT == FromRatio(20, 100)

F_THIRTY == FromRatio(30, 100)

F_FULL == FromRatio(40, 100)

\* the float of a weight that comes in hundredths
WeightF(h) ==
    CASE h = 0  -> ZeroF
      [] h = 20 -> F_LIGHT
      [] h = 30 -> F_THIRTY
      [] h = 40 -> F_FULL
      [] OTHER  -> FromRatio(h, 100)

\* a*s1 + b*s2 + c*s3, added from left to right, cut to [0.0, 1.0]
Weighted(s1, s2, s3, a, b, c) ==
    MaxF(ZeroF, MinF(OneF, AddF(AddF(MulF(a, s1), MulF(b, s2)), MulF(c, s3))))

\* fuse_scores(s1, s2, s3, w); the weights come in hundredths
fuse_scores(s1, s2, s3, w) ==
    Weighted(s1, s2, s3, WeightF(w[1]), WeightF(w[2]), WeightF(w[3]))

(***************************************************************************)
(* resolver.py: categorize_document                                        *)
(***************************************************************************)
\* filename weights, in hundredths
W_NONE == 0

W_LIGHT == 20

W_FULL == 40

W_KW == 30

W_EMB == 30

\* the status thresholds: 0.70 and 0.60
TH_ACCEPT == FromRatio(70, 100)

TH_REVIEW == FromRatio(60, 100)

\* the factor of a partial rule application: 0.9
PARTIAL == FromRatio(9, 10)

\* the float of a rule score: the scores of rules.py are the literals 0.85, 0.9 and
\* 0.95 and the sums 0.5, 0.75 and 1.0, which floats hold exactly
RuleScore(hit) == FromRatio(hit.score, Scale)

\* the chunk and character caps of the rule text window
RULE_MAX_CHUNKS == 12

RULE_MAX_CHARS == 20000

\* a slip of the duplicate rule: a name that occurs twice already loses its weight
FusionWeights_twice_is_many(generic, dup_count) ==
    LET w_s1 == IF generic \/ dup_count >= 2 THEN W_NONE ELSE W_FULL
    IN  <<w_s1, W_KW, W_EMB>>

\* the dynamic fusion weights
FusionWeights(generic, dup_count) ==
    LET w_s1 == IF generic \/ dup_count >= 3 THEN W_NONE
                ELSE IF dup_count = 2 THEN W_LIGHT
                ELSE W_FULL
    IN  <<w_s1, W_KW, W_EMB>>

\* the thresholds
StatusOf(final) ==
    IF LeF(TH_ACCEPT, final) THEN "accepted"
    ELSE IF LeF(TH_REVIEW, final) THEN "needs_review"
    ELSE "unassigned"

\* the rule text window: chunks[:12], cut after the chunk that takes it over 20000 characters
RECURSIVE RuleWindow(_, _, _, _)
RuleWindow(chunks, i, total, acc) ==
    IF i > Min(RULE_MAX_CHUNKS, Len(chunks)) THEN acc
    ELSE IF total + chunks[i].len > RULE_MAX_CHARS THEN Append(acc, chunks[i])
    ELSE RuleWindow(chunks, i + 1, total + chunks[i].len, Append(acc, chunks[i]))

\* the regular expressions that match "\n".join(texts): those with a match inside
\* one chunk and those with a match that runs over a join and ends inside the window
WindowRx(win) ==
    UNION {win[i].rx : i \in 1..Len(win)}
    \cup {o.rx : o \in {x \in UNION {win[i].over : i \in 1..Len(win)} :
                            \E i \in 1..Len(win) : x \in win[i].over
                                                    /\ i + x.span <= Len(win)}}

\* a slip of the sort: of two candidates with one score the later comes first
RECURSIVE InsertDesc_ties_reversed(_, _)
InsertDesc_ties_reversed(sorted, rec) ==
    IF sorted = << >> THEN <<rec>>
    ELSE IF LtF(rec.final, Head(sorted).final)
         THEN <<Head(sorted)>> \o InsertDesc_ties_reversed(Tail(sorted), rec)
         ELSE <<rec>> \o sorted

\* scored.sort(key=lambda x: x[1], reverse=True): stable, descending
RECURSIVE InsertDesc(_, _)
InsertDesc(sorted, rec) ==
    IF sorted = << >> THEN <<rec>>
    ELSE IF LeF(rec.final, Head(sorted).final)
         THEN <<Head(sorted)>> \o InsertDesc(Tail(sorted), rec)
         ELSE <<rec>> \o sorted

RECURSIVE SortDesc(_, _, _)
SortDesc(recs, i, acc) ==
    IF i > Len(recs) THEN acc
    ELSE SortDesc(recs, i + 1, InsertDesc(acc, recs[i]))

\* (c.slug, final, (s1, s2, s3), c)
ScoredEntry(c, s1, s2, s3, weights) ==
    [slug |-> c.slug, final |-> fuse_scores(s1, s2, s3, weights),
     s1 |-> s1, s2 |-> s2, s3 |-> s3, cat |-> c]

\* one entry of `scored`
ScoreCategory(doc, c, has_doc_vec, cat_vecs, weights) ==
    ScoredEntry(c,
                score_filename(doc.fuzz[c.slug]),
                score_keywords(doc.chunks, c, KW_TOP_K),
                score_embeddings(has_doc_vec, c.slug \in cat_vecs,
                                 FromRatio(doc.cos[c.slug], Scale)),
                weights)

\* step 3: for c in cats: scored.append(...)
RECURSIVE ScoreLoop(_, _, _, _, _, _)
ScoreLoop(doc, cats, has_doc_vec, cat_vecs, weights, scored) ==
    IF Len(scored) = Len(cats) THEN scored
    ELSE ScoreLoop(doc, cats, has_doc_vec, cat_vecs, weights,
                   Append(scored, ScoreCategory(doc, cats[Len(scored) + 1], has_doc_vec,
                                                cat_vecs, weights)))

\* a slip of the override: the rule lifts the score but the fused ranking keeps the slug
ApplyRule_ranking_wins(scored, rule_best) ==
    LET top == scored[1]
    IN  IF rule_best = Nil
        THEN [slug |-> top.slug, cat |-> top.cat, final |-> top.final, rule |-> Nil]
        ELSE IF \E i \in 1..Len(scored) : scored[i].slug = rule_best.slug
        THEN [slug |-> top.slug, cat |-> top.cat,
              final |-> MaxF(top.final, RuleScore(rule_best)),
              rule |-> [slug |-> rule_best.slug, score |-> Round3(RuleScore(rule_best)),
                        reason |-> rule_best.why, partial |-> FALSE]]
        ELSE LET boosted == MulF(RuleScore(rule_best), PARTIAL)
             IN  [slug |-> top.slug, cat |-> top.cat,
                  final |-> MaxF(top.final, boosted),
                  rule |-> [slug |-> rule_best.slug, score |-> Round3(boosted),
                            reason |-> rule_best.why, partial |-> TRUE]]

\* a slip of the partial override: the rule score is taken undamped
ApplyRule_undamped(scored, rule_best) ==
    LET top == scored[1]
    IN  IF rule_best = Nil
        THEN [slug |-> top.slug, cat |-> top.cat, final |-> top.final, rule |-> Nil]
        ELSE IF \E i \in 1..Len(scored) : scored[i].slug = rule_best.slug
        THEN LET k == CHOOSE i \in 1..Len(scored) :
                         /\ scored[i].slug = rule_best.slug
                         /\ \A j \in 1..(i-1) : scored[j].slug # rule_best.slug
             IN  [slug |-> rule_best.slug, cat |-> scored[k].cat,
                  final |-> MaxF(top.final, RuleScore(rule_best)),
                  rule |-> [slug |-> rule_best.slug,
                            score |-> Round3(RuleScore(rule_best)),
                            reason |-> rule_best.why, partial |-> FALSE]]
        ELSE [slug |-> top.slug, cat |-> top.cat,
              final |-> MaxF(top.final, RuleScore(rule_best)),
              rule |-> [slug |-> rule_best.slug, score |-> Round3(RuleScore(rule_best)),
                        reason |-> rule_best.why, partial |-> TRUE]]

\* step 4: the rule override on top of the best fused candidate
ApplyRule(scored, rule_best) ==
    LET top == scored[1]
    IN  IF rule_best = Nil
        THEN [slug |-> top.slug, cat |-> top.cat, final |-> top.final, rule |-> Nil]
        ELSE IF \E i \in 1..Len(scored) : scored[i].slug = rule_best.slug
        THEN LET k == CHOOSE i \in 1..Len(scored) :
                         /\ scored[i].slug = rule_best.slug
                         /\ \A j \in 1..(i-1) : scored[j].slug # rule_best.slug
             IN  [slug |-> rule_best.slug, cat |-> scored[k].cat,
                  final |-> MaxF(top.final, RuleScore(rule_best)),
                  rule |-> [slug |-> rule_best.slug,
                            score |-> Round3(RuleScore(rule_best)),
                            reason |-> rule_best.why, partial |-> FALSE]]
        ELSE LET boosted == MulF(RuleScore(rule_best), PARTIAL)
             IN  [slug |-> top.slug, cat |-> top.cat,
                  final |-> MaxF(top.final, boosted),
                  rule |-> [slug |-> rule_best.slug, score |-> Round3(boosted),
                            reason |-> rule_best.why, partial |-> TRUE]]

\* one row of the Top-K preview
PreviewRow(rec, rank) ==
    [rank |-> rank, slug |-> rec.slug, score |-> Round3(rec.final),
     s1_fn |-> Round3(rec.s1), s2_kw |-> Round3(rec.s2), s3_emb |-> Round3(rec.s3),
     display |-> rec.cat.display, top_entity |-> rec.cat.top_entity,
     state_variant |-> rec.cat.state_variant, org_variant |-> rec.cat.org_variant]

\* the default of topk_show
TOPK_SHOW == 3

\* step 5 and the returned dict, from the sorted list `scored`, its head `top` and the
\* outcome `dec` of step 4
Decision(doc, dup_count, topk_show, generic, weights, scored, top, dec) ==
    [doc_id |-> doc.id,
     document_name |-> doc.name,
     best_slug |-> dec.slug,
     best_display |-> dec.cat.display,
     top_entity |-> dec.cat.top_entity,
     state_variant |-> dec.cat.state_variant,
     org_variant |-> dec.cat.org_variant,
     final |-> Round3(dec.final),
     s1 |-> Round3(top.s1), s2 |-> Round3(top.s2), s3 |-> Round3(top.s3),
     status |-> StatusOf(dec.final),
     topk |-> [i \in 1..Min(topk_show, Len(scored)) |-> PreviewRow(scored[i], i)],
     rule |-> dec.rule,
     weights |-> weights,
     is_dup_name |-> (dup_count >= 2),
     name_dup_count |-> dup_count,
     is_generic_name |-> generic]

\* steps 4 and 5, from the sorted list `scored` and the best rule hit
Override(doc, dup_count, topk_show, generic, weights, scored, rule_best) ==
    Decision(doc, dup_count, topk_show, generic, weights, scored, scored[1],
             ApplyRule(scored, rule_best))

\* steps 3 to 5, under the weights of step 2
ScoreAndDecide(doc, cats, cat_vecs, dup_count, topk_show, generic, weights) ==
    Override(doc, dup_count, topk_show, generic, weights,
             SortDesc(ScoreLoop(doc, cats, doc_vector_mean(doc.chunks, VEC_MAX_CHUNKS),
                                cat_vecs, weights, << >>),
                      1, << >>),
             rule_best_of(rules_from_text_and_filename(
                              WindowRx(RuleWindow(doc.chunks, 1, 0, << >>)), doc.name)))

\* steps 2 to 5, for a filename that is generic or not
WeighAndDecide(doc, cats, cat_vecs, dup_count, topk_show, generic) ==
    ScoreAndDecide(doc, cats, cat_vecs, dup_count, topk_show, generic,
                   FusionWeights(generic, dup_count))

categorize_document(doc, cats, cat_vecs, dup_count, topk_show) ==
    WeighAndDecide(doc, cats, cat_vecs, dup_count, topk_show, is_generic_filename(doc.name))


(***************************************************************************)
(* source_of_truth.py: categories and the jurisdiction filter              *)
(***************************************************************************)
\* a Category record (prototype text plays no part in what is modelled)
Cat(slug, display, top_entity, state_variant, org_variant, keywords, synonyms) ==
    [slug |-> slug, display |-> display, top_entity |-> top_entity,
     state_variant |-> state_variant, org_variant |-> org_variant,
     keywords |-> keywords, synonyms |-> synonyms]

\* the two jurisdiction-specific classes
STATE_SPECIFIC == {"project_approvals_documents", "project_land_documents"}

\* A state string is a sequence of one-character strings; NoState is None where a
\* state string is expected.
NoState == <<None>>

TS == <<"T","S">>

KA == <<"K","A">>

TELANGANA == <<"T","E","L","A","N","G","A","N","A">>

KARNATAKA == <<"K","A","R","N","A","T","A","K","A">>

\* _STATE_MAP
_STATE_MAP == (TELANGANA :> TS) @@ (TS :> TS) @@ (KARNATAKA :> KA) @@ (KA :> KA)

\* the control characters 0x0b (vertical tab) and 0x1c to 0x1f (the four separators),
\* each written as itself between the quotes
VT == ""

FS == ""

GS == ""

RS == ""

US == ""

\* a character outside ASCII is written as its code point; of these the model holds
\* the ones str.isspace() is true of, and none of them has an upper or a lower case
UnicodeSpaces ==
    {"U+0085", "U+00A0", "U+1680", "U+2000", "U+2001", "U+2002", "U+2003", "U+2004",
     "U+2005", "U+2006", "U+2007", "U+2008", "U+2009", "U+200A", "U+2028", "U+2029",
     "U+202F", "U+205F", "U+3000"}

\* the characters str.strip() removes: the ones str.isspace() is true of
Whitespace == {" ", "\t", "\n", "\r", "\f", VT, FS, GS, RS, US} \cup UnicodeSpaces

\* str.strip()
Strip(s) ==
    LET keep == {i \in 1..Len(s) : s[i] \notin Whitespace}
    IN  IF keep = {} THEN << >>
        ELSE SubSeq(s, CHOOSE i \in keep : \A j \in keep : i <= j,
                       CHOOSE i \in keep : \A j \in keep : j <= i)

\* str.upper() on one character
UpperChar(c) ==
    IF \E i \in 1..26 : LowerChars[i] = c
    THEN UpperChars[CHOOSE i \in 1..26 : LowerChars[i] = c]
    ELSE c

\* str.upper()
Upper(s) == [i \in 1..Len(s) |-> UpperChar(s[i])]

\* str(v).strip().upper() for v: Optional[str], as _norm_state declares it; on a
\* string str(v) is v (a number in the catalog file is outside the model's values)
StripUpper(v) == Upper(Strip(v))

\* _norm_state(v): the code of a known state, the string itself when unknown
_norm_state(v) ==
    IF v = NoState THEN NoState
    ELSE LET s == StripUpper(v)
         IN  IF s \in DOMAIN _STATE_MAP THEN _STATE_MAP[s] ELSE v

\* a slip of the filter: the test for "no jurisdiction given" is left out
FilterLoop_no_none_test(cats, state, i, acc) ==
    SelectSeq(cats, LAMBDA c : c.top_entity \in STATE_SPECIFIC => c.state_variant = state)

\* the loop body shared by both versions of filter_by_state
RECURSIVE FilterLoop(_, _, _, _)
FilterLoop(cats, state, i, acc) ==
    IF i > Len(cats) THEN acc
    ELSE LET c == cats[i]
         IN  FilterLoop(cats, state, i + 1,
                 IF c.top_entity \in STATE_SPECIFIC
                 THEN IF state = NoState THEN acc
                      ELSE IF c.state_variant = state THEN Append(acc, c)
                      ELSE acc
                 ELSE Append(acc, c))

\* source_of_truth.py (current): state = _norm_state(state)
filter_by_state(cats, state) == FilterLoop(cats, _norm_state(state), 1, << >>)

\* rishabh_code/uploads_logic/source_of_truth.py (earlier copy):
\* state = (state or "").upper() or None
filter_by_state_v0(cats, state) ==
    FilterLoop(cats, IF state = NoState \/ state = << >> THEN NoState ELSE Upper(state),
               1, << >>)


(***************************************************************************)
(* resolver.py: category prototype vectors                                 *)
(***************************************************************************)
\* a slip of build_category_vectors: vectors although no model could be loaded
build_category_vectors_without_model(cats, has_embedder) ==
    {cats[i].slug : i \in 1..Len(cats)}

\* build_category_vectors(cats): the slugs that get a vector; {} without an embedder
build_category_vectors(cats, has_embedder) ==
    IF ~has_embedder THEN {}
    ELSE {cats[i].slug : i \in 1..Len(cats)}

(***************************************************************************)
(* Inputs: a sample catalog, filenames, chunks and library results         *)
(***************************************************************************)
Catalog == <<
    Cat("dev_company_tan", "TAN Allotment Letter", "developer_entity", NoState, "company",
        <<"tan", "tax deduction account number", "tds", "allotment", "income tax",
          "deductor", "nsdl", "form 49b", "tan allotment", "traces">>, << >>),
    Cat("dev_company_gst_pan", "GST Certificate and PAN", "developer_entity", NoState, "company",
        <<"gstin", "gst", "goods and services tax", "pan", "permanent account number">>,
        << >>),
    Cat("ts_rera_certificate", "RERA Certificate", "project_approvals_documents", TS, None,
        <<"rera", "real estate regulatory authority", "project registration", "tsrera", "telangana">>,
        <<"regulatory authority">>),
    Cat("ka_rera", "RERA", "project_approvals_documents", KA, None,
        <<"rera", "real estate regulatory authority", "project registration", "k-rera", "karnataka">>,
        <<"regulatory authority">>) >>

CatalogSlugs == {Catalog[i].slug : i \in 1..Len(Catalog)}

name_gst   == <<"G","S","T","_","C","e","r","t","i","f","i","c","a","t","e",".","p","d","f">>

name_scan  == <<"s","c","a","n","0","0","0","1",".","p","d","f">>

name_rera  == <<"r","e","r","a","_","a","p","p","r","o","v","a","l",".","p","d","f">>

name_deed  == <<"S","a","l","e","_","D","e","e","d","_","F","i","n","a","l",".","P","D","F">>

name_bank  == <<"u","p","l","o","a","d","s","/","B","a","n","k","_","S","t","a","t","e","m","e","n","t",".","p","d","f">>

name_scan_01 == <<"S","c","a","n","_","0","1",".","p","d","f">>

\* a name that ends with a line feed: its extension is removed all the same
name_short_lf == <<"a","b","c","d","e",".","p","d","f","\n">>

FileNames == {name_gst, name_scan, name_rera, name_deed, name_bank, name_scan_01}

\* the first match of each identifier pattern in a text, as the pattern returns it
\* (group 0, for the name group 1, which is never empty but may be blank); << >> where
\* the pattern does not match
Ids(pan, gstin, cin, llpin, name) ==
    [pan |-> pan, gstin |-> gstin, cin |-> cin, llpin |-> llpin, name |-> name]

NoIds == Ids(<< >>, << >>, << >>, << >>, << >>)

gstin_1 == <<"2","9","A","B","C","D","E","1","2","3","4","F","1","Z","5">>

cin_1 == <<"U","1","2","A","B","C","2","0","2","0","P","T","C","1","2","3","4","5","6">>

name_1 == <<"S","u","n","r","i","s","e"," ","B","u","i","l","d","e","r","s"," ","P","v","t","."," ","L","t","d">>

\* Chunk texts, each known by what matches it: rx and kw are the detectors and the
\* keywords with a match inside the text, ids the first match of each identifier
\* pattern inside it. What runs over the end of the text is told with the chunk
\* where it starts:
\*   over     [rx, span]: the chunk and the next span chunks, joined by "\n", hold a
\*            match of rx that no shorter run of them holds;
\*   kw_over  [kw, span]: the same for keyword kw and the join by " ";
\*   ids_over the match a pattern's search finds first in this chunk when that match
\*            runs into a later chunk (its span is in over).
chunk_empty == [rx |-> {}, kw |-> {}, emb |-> FALSE, len |-> 0, ids |-> NoIds, over |-> {}, kw_over |-> {},
                ids_over |-> NoIds]

chunk_plain == [rx |-> {}, kw |-> {}, emb |-> TRUE, len |-> 26, ids |-> NoIds, over |-> {}, kw_over |-> {},
                ids_over |-> NoIds]

chunk_gstin == [rx |-> {"GSTIN_RX"}, kw |-> {"gstin", "gst", "goods and services tax"},
                emb |-> TRUE, len |-> 63,
                ids |-> Ids(<< >>, gstin_1, << >>, << >>, << >>), over |-> {}, kw_over |-> {},
                ids_over |-> NoIds]

chunk_tan   == [rx |-> {"TAN_RX"}, kw |-> {"tan", "tds", "allotment"},
                emb |-> TRUE, len |-> 41, ids |-> NoIds, over |-> {}, kw_over |-> {},
                ids_over |-> NoIds]

chunk_rera  == [rx |-> {"RERA_RX"},
                kw |-> {"rera", "real estate regulatory authority", "project registration",
                       "regulatory authority"},
                emb |-> TRUE, len |-> 62, ids |-> NoIds, over |-> {}, kw_over |-> {},
                ids_over |-> NoIds]

chunk_bank  == [rx |-> {"BANK_STMT_RX", "COMPANY_MARKERS_RX"}, kw |-> {},
                emb |-> TRUE, len |-> 63, ids |-> NoIds, over |-> {}, kw_over |-> {},
                ids_over |-> NoIds]

chunk_long  == [rx |-> {}, kw |-> {}, emb |-> FALSE, len |-> 25000, ids |-> NoIds, over |-> {}, kw_over |-> {},
                ids_over |-> NoIds]

chunk_tan_cin == [rx |-> {"TAN_RX", "CIN_RX", "COMPANY_MARKERS_RX"},
                  kw |-> {"tan", "tds", "allotment"}, emb |-> TRUE, len |-> 66,
                  ids |-> Ids(<< >>, << >>, cin_1, << >>, << >>), over |-> {}, kw_over |-> {},
                ids_over |-> NoIds]

chunk_rera_name == [rx |-> {"RERA_RX", "COMPANY_MARKERS_RX"},
                    kw |-> {"rera", "real estate regulatory authority", "project registration",
                       "regulatory authority"},
                    emb |-> TRUE, len |-> 95,
                    ids |-> Ids(<< >>, << >>, << >>, << >>, name_1), over |-> {}, kw_over |-> {},
                ids_over |-> NoIds]

\* "Please find the Account" before "Statement for the quarter"
chunk_acct == [rx |-> {}, kw |-> {}, emb |-> TRUE, len |-> 23, ids |-> NoIds,
               over |-> {[rx |-> "BANK_STMT_RX", span |-> 1]}, kw_over |-> {},
               ids_over |-> NoIds]

chunk_stmt == [rx |-> {}, kw |-> {}, emb |-> TRUE, len |-> 25, ids |-> NoIds,
               over |-> {}, kw_over |-> {}, ids_over |-> NoIds]

\* the same beginning at the end of a text of more than 20000 characters
chunk_long_acct == [rx |-> {}, kw |-> {}, emb |-> FALSE, len |-> 25007, ids |-> NoIds,
                    over |-> {[rx |-> "BANK_STMT_RX", span |-> 1]}, kw_over |-> {},
                    ids_over |-> NoIds]

\* "refund of tax deduction" before "account number of the deductee"
chunk_refund == [rx |-> {}, kw |-> {}, emb |-> TRUE, len |-> 23, ids |-> NoIds,
                 over |-> {},
                 kw_over |-> {[kw |-> "tax deduction account number", span |-> 1]},
                 ids_over |-> NoIds]

chunk_deductee == [rx |-> {}, kw |-> {}, emb |-> TRUE, len |-> 30, ids |-> NoIds,
                   over |-> {}, kw_over |-> {}, ids_over |-> NoIds]

\* four, five and all ten keywords of dev_company_tan, and no identifier
chunk_tan4 == [rx |-> {}, kw |-> {"tan", "tds", "allotment", "deductor"}, emb |-> TRUE,
               len |-> 48, ids |-> NoIds, over |-> {}, kw_over |-> {}, ids_over |-> NoIds]

chunk_tan5 == [rx |-> {}, kw |-> {"tan", "tds", "allotment", "deductor", "nsdl"}, emb |-> TRUE,
               len |-> 58, ids |-> NoIds, over |-> {}, kw_over |-> {}, ids_over |-> NoIds]

chunk_tan_all == [rx |-> {},
                  kw |-> {"tan", "tax deduction account number", "tds", "allotment",
                          "income tax", "deductor", "nsdl", "form 49b", "tan allotment",
                          "traces"},
                  emb |-> TRUE, len |-> 108, ids |-> NoIds, over |-> {}, kw_over |-> {},
                  ids_over |-> NoIds]

ChunkLists == { << >>, <<chunk_empty>>, <<chunk_plain>>, <<chunk_gstin>>, <<chunk_tan>>,
                <<chunk_rera>>, <<chunk_bank>>, <<chunk_long, chunk_gstin>>,
                <<chunk_acct, chunk_stmt>>, <<chunk_long_acct, chunk_stmt>>,
                <<chunk_refund, chunk_deductee>> }

\* the largest rapidfuzz ratio of the filename against each category's names, in percent
fuzz_none == [s \in CatalogSlugs |-> 0]

fuzz_all  == [s \in CatalogSlugs |-> 100]

fuzz_gst  == [s \in CatalogSlugs |-> IF s = "dev_company_gst_pan" THEN 100 ELSE 30]

fuzz_tan  == [s \in CatalogSlugs |-> IF s = "dev_company_tan" THEN 100 ELSE 50]

FuzzTables == {fuzz_none, fuzz_all, fuzz_gst, fuzz_tan}

\* a partial resemblance to the names of dev_company_tan alone
FuzzOf(pct) == [s \in CatalogSlugs |-> IF s = "dev_company_tan" THEN pct ELSE 0]

\* the cosine of the document vector against each category's vector, in 1/10000ths
cos_low  == [s \in CatalogSlugs |-> 2000]

cos_high == [s \in CatalogSlugs |-> 9000]

cos_tan  == [s \in CatalogSlugs |-> IF s = "dev_company_tan" THEN 8993 ELSE 2000]

cos_rera == [s \in CatalogSlugs |-> IF s = "dev_company_gst_pan" THEN 5500 ELSE 8993]

CosTables == {cos_low, cos_high, cos_tan, cos_rera}

\* a middling cosine against the vector of dev_company_tan alone
CosOf(c) == [s \in CatalogSlugs |-> IF s = "dev_company_tan" THEN c ELSE 2000]

\* spellings of a requested state
st_ts_lower == <<"t","s">>

st_ts_blank == <<" ","t","s"," ">>

st_ts_mixed == <<"T","s">>

st_ka_blank == <<" ","k","a","\n">>

\* spellings between white space that is not a blank, a tab or a line end
st_ts_vt == <<VT,"t","s",US>>

st_ka_nbsp == <<"U+00A0","K","a","U+2003">>

st_telangana == <<"t","e","l","a","n","g","a","n","a">>

st_karnataka == <<"K","a","r","n","a","t","a","k","a"," ">>

st_goa == <<"G","O","A">>

\* the requests of one categorization
States == {NoState, TS, st_ka_blank}

\* the requests of the filter
FilterStates == {NoState, << >>, TS, KA, st_ts_lower, st_ts_blank, st_ts_mixed, st_ka_blank,
                 st_ts_vt, st_ka_nbsp,
                 st_telangana, st_karnataka, st_goa}

\* the largest corpus count of one filename
MaxDup == 3

\* the longest corpus
MaxDocs == 2

\* a bound of the exploration, not of the code: the clock of the database runs on for
\* ever, and a run or an override that would begin after this time is not explored
MaxClock == 5

\* inp     the input of the operation at hand
\* out     its result; in SpecTwice the results and the table of the first run, in
\*         SpecOrder the results and the committed updates of the run in progress
\* docs    the documents: id, name, chunks (never written by the pipeline)
\* store   the columns of the documents table that update_match writes, per id
\* pc      the position of the run in progress
\* run     the locals of run()
\* writes  the updates the run in progress has committed, in order
\* now     the database clock, now() of db.py:83, counted in committed updates
VARIABLES inp, out, docs, store, pc, run, writes, now

vars == <<inp, out, docs, store, pc, run, writes, now>>

(***************************************************************************)
(* SpecCat: categorize_document on one document                            *)
(***************************************************************************)
\* topk is topk_show: run() leaves it at its default, the page passes the value of
\* its slider (1 to 5)
CatInputs ==
    [doc : [id : {1}, name : FileNames, chunks : ChunkLists,
            fuzz : FuzzTables, cos : CosTables],
     state : States, dup : 0..MaxDup, embedder : BOOLEAN, topk : {TOPK_SHOW}]

\* documents whose fused score lies next to a threshold or halfway between two
\* thousandths: a name without hints, some keywords of dev_company_tan
EdgeInputs ==
    [doc : [id : {1}, name : {name_deed, name_short_lf},
            chunks : {<<chunk_tan>>, <<chunk_tan4>>, <<chunk_tan5>>, <<chunk_tan_all>>},
            fuzz : {FuzzOf(0), FuzzOf(36), FuzzOf(75), FuzzOf(100)},
            cos : {CosOf(5465), CosOf(5500), CosOf(5640)}],
     state : {NoState}, dup : {0}, embedder : BOOLEAN, topk : {TOPK_SHOW}]

\* slider values below and above the number of candidates
TopkChoices == {1, 2, 4}

\* calls of the page with its slider moved: three candidates, fewer or more rows shown
TopkInputs ==
    [doc : [id : {1}, name : {name_deed, name_rera},
            chunks : {<<chunk_plain>>, <<chunk_tan>>},
            fuzz : FuzzTables, cos : CosTables],
     state : {TS, KA}, dup : {0}, embedder : {TRUE}, topk : TopkChoices]

InitCat ==
    /\ inp \in CatInputs \cup EdgeInputs \cup TopkInputs
    /\ out = Nil
    /\ pc = "call"
    /\ docs = << >>
    /\ store = << >>
    /\ run = Nil
    /\ writes = << >>
    /\ now = 1

\* the candidates, the vectors and the call, as run() and the page make it for one
\* document
Categorize ==
    /\ pc = "call"
    /\ LET cats == filter_by_state(Catalog, inp.state)
           cat_vecs == build_category_vectors(cats, inp.embedder)
       IN  out' = categorize_document(inp.doc, cats, cat_vecs, inp.dup, inp.topk)
    /\ pc' = "done"
    /\ UNCHANGED <<inp, docs, store, run, writes, now>>

NextCat == Categorize

SpecCat == InitCat /\ [][NextCat]_vars


(***************************************************************************)
(* SpecRules: the rule engine on one text and filename                     *)
(***************************************************************************)
RxSample == {"PAN_RX", "AADHAAR_RX", "GSTIN_RX", "MOA_RX", "AOA_RX", "LLPIN_RX",
             "COI_RX", "CIN_RX", "BANK_STMT_RX", "COMPANY_MARKERS_RX"}

\* the sets of detectors one text can match: LLPIN_RX needs the word LLPIN, which
\* COMPANY_MARKERS_RX matches too
RxSets == {rx \in SUBSET RxSample : "LLPIN_RX" \in rx => "COMPANY_MARKERS_RX" \in rx}

InitRules ==
    /\ inp \in [rx : RxSets, name : FileNames \cup {name_short_lf}]
    /\ out = Nil
    /\ pc = "call"
    /\ docs = << >>
    /\ store = << >>
    /\ run = Nil
    /\ writes = << >>
    /\ now = 1

\* the call, with the local score each text rule reached
EvalRules ==
    /\ pc = "call"
    /\ out' = [hits  |-> rules_from_text_and_filename(inp.rx, inp.name),
               local |-> [k \in 1..Len(TEXT_RULES) |->
                             LocalScore(TEXT_RULES[k].regs, inp.rx, 1, 0)]]
    /\ pc' = "done"
    /\ UNCHANGED <<inp, docs, store, run, writes, now>>

NextRules == EvalRules

SpecRules == InitRules /\ [][NextRules]_vars

(***************************************************************************)
(* SpecFilter: both versions of filter_by_state on one catalog             *)
(***************************************************************************)
\* the longest catalog tried
MaxCats == 2

CatKinds ==
    { Cat("c", "C", top, st, None, << >>, << >>) :
        top \in STATE_SPECIFIC \cup {"developer_entity", "legal_documents"},
        st \in {NoState, TS, KA, st_goa} }

CatLists == UNION { [1..n -> CatKinds] : n \in 0..MaxCats }

InitFilter ==
    /\ inp \in [cats : CatLists, state : FilterStates]
    /\ out = Nil
    /\ pc = "call"
    /\ docs = << >>
    /\ store = << >>
    /\ run = Nil
    /\ writes = << >>
    /\ now = 1

EvalFilter ==
    /\ pc = "call"
    /\ out' = [current |-> filter_by_state(inp.cats, inp.state),
               earlier |-> filter_by_state_v0(inp.cats, inp.state)]
    /\ pc' = "done"
    /\ UNCHANGED <<inp, docs, store, run, writes, now>>

NextFilter == EvalFilter

SpecFilter == InitFilter /\ [][NextFilter]_vars

(***************************************************************************)
(* db.py: the document store                                               *)
(***************************************************************************)
\* the six columns update_match is given values for
Row(slug, top_entity, org_variant, state_variant, confidence, status) ==
    [canonical_slug |-> slug, top_entity |-> top_entity, org_variant |-> org_variant,
     state_variant |-> state_variant, confidence |-> confidence, status |-> status]

\* a row of the documents table without its name: the six columns and updated_at
Stamped(row, t) ==
    [canonical_slug |-> row.canonical_slug, top_entity |-> row.top_entity,
     org_variant |-> row.org_variant, state_variant |-> row.state_variant,
     confidence |-> row.confidence, status |-> row.status, updated_at |-> t]

\* the six columns of a row of the table
Columns(row) ==
    Row(row.canonical_slug, row.top_entity, row.org_variant, row.state_variant,
        row.confidence, row.status)

\* a row as it is when the clock starts (at 1): nothing has updated it since
AtStart(row) == Stamped(row, 0)

\* get_documents(limit=limit): the ids in ascending order, the first `limit` when given
get_documents(limit) ==
    LET n == IF limit = NoNumber \/ limit = 0 THEN Len(docs) ELSE Min(limit, Len(docs))
    IN  [i \in 1..n |-> i]

\* the row dict get_documents returns for one id
DocRow(id) ==
    [id |-> id, document_name |-> docs[id].name,
     canonical_slug |-> store[id].canonical_slug, top_entity |-> store[id].top_entity,
     org_variant |-> store[id].org_variant, state_variant |-> store[id].state_variant,
     confidence |-> store[id].confidence, status |-> store[id].status]

\* a slip of the histogram: only the documents no run has given a status are counted
filename_counts_of_unprocessed ==
    [n \in {Lower(docs[i].name) : i \in 1..Len(docs)} |->
        Cardinality({i \in 1..Len(docs) : Lower(docs[i].name) = n /\ store[i].status = None})]

\* filename_counts(): lower(document_name) -> COUNT(*)
filename_counts ==
    [n \in {Lower(docs[i].name) : i \in 1..Len(docs)} |->
        Cardinality({i \in 1..Len(docs) : Lower(docs[i].name) = n})]

\* fname_cnts.get(fname_l, 0)
CountOf(fname_cnts, fname_l) ==
    IF fname_l \in DOMAIN fname_cnts THEN fname_cnts[fname_l] ELSE 0

\* the record of one update_match call
UpdateCall(doc_id, slug, top_entity, org_variant, state_variant, confidence, status) ==
    [doc_id |-> doc_id, row |-> Row(slug, top_entity, org_variant, state_variant,
                                    confidence, status)]

\* the UPDATE as executed: the six values of the call and updated_at = now()
Executed(call, t) == [doc_id |-> call.doc_id, row |-> Stamped(call.row, t)]

\* update_match: the UPDATE of one row, committed. now() is the start time of the
\* transaction; every call opens a connection and a transaction of its own, later
\* than the one before it, so the clock is counted in transactions
update_match(call) ==
    /\ store' = [store EXCEPT ![call.doc_id] = Stamped(call.row, now)]
    /\ writes' = Append(writes, Executed(call, now))
    /\ now' = now + 1

(***************************************************************************)
(* resolver.py: run(state, limit, apply)                                   *)
(***************************************************************************)
\* a slip of the write: every applied result is sent to review
ClassifyCall_all_to_review(res) ==
    UpdateCall(res.doc_id, res.best_slug, res.top_entity, res.org_variant,
               res.state_variant, res.final, "needs_review")

\* a slip of the write: the score is not stored
ClassifyCall_without_score(res) ==
    UpdateCall(res.doc_id, res.best_slug, res.top_entity, res.org_variant,
               res.state_variant, NoNumber, res.status)

\* the update run() makes for one result when apply is set
ClassifyCall(res) ==
    UpdateCall(res.doc_id, res.best_slug, res.top_entity, res.org_variant,
               res.state_variant, res.final, res.status)

\* everything run() sets up before its loop, from the categories load_sot returned
plan_from(all_cats, state, limit, apply, has_embedder) ==
    LET cats == filter_by_state(all_cats, state)
    IN  [kind |-> "classify", state |-> state, limit |-> limit, apply |-> apply,
         cats |-> cats,
         cat_vecs |-> build_category_vectors(cats, has_embedder),
         fname_cnts |-> filename_counts,
         rows |-> get_documents(limit),
         i |-> 1, results |-> << >>]

\* the same with the catalog of the installation
classify_plan(state, limit, apply, has_embedder) ==
    plan_from(Catalog, state, limit, apply, has_embedder)

\* the start of a classification run, up to the loop
StartClassify(state, limit, apply, has_embedder) ==
    /\ pc \in {"idle", "classify_done", "roles_done", "roles_none"}
    /\ now <= MaxClock
    /\ run' = classify_plan(state, limit, apply, has_embedder)
    /\ writes' = << >>
    /\ pc' = "classify"
    /\ UNCHANGED <<inp, out, docs, store, now>>

\* a slip of the loop: a name is counted among the rows the loop has not yet passed
classify_row_counts_ahead(r) ==
    LET doc == docs[r.rows[r.i]]
    IN  categorize_document(doc, r.cats, r.cat_vecs,
                            Cardinality({j \in r.i..Len(r.rows) :
                                            Lower(docs[r.rows[j]].name) = Lower(doc.name)}),
                            TOPK_SHOW)

\* the result of the loop's turn for the row at hand
classify_row(r) ==
    LET doc == docs[r.rows[r.i]]
    IN  categorize_document(doc, r.cats, r.cat_vecs,
                            CountOf(r.fname_cnts, Lower(doc.name)), TOPK_SHOW)

\* one turn of the loop: categorize, and update the store when apply is set
ClassifyDoc ==
    /\ pc = "classify"
    /\ run.i <= Len(run.rows)
    /\ run' = [run EXCEPT !.i = @ + 1, !.results = Append(@, classify_row(run))]
    /\ IF run.apply
       THEN update_match(ClassifyCall(run'.results[run.i]))
       ELSE UNCHANGED <<store, writes, now>>
    /\ UNCHANGED <<inp, out, docs, pc>>

\* the loop is over: the summary line
FinishClassify ==
    /\ pc = "classify"
    /\ run.i > Len(run.rows)
    /\ pc' = "classify_done"
    /\ UNCHANGED <<inp, out, docs, store, run, writes, now>>

(***************************************************************************)
(* entity_role_infer.py: entity keys, role features and the role run       *)
(***************************************************************************)
\* the legal-form tokens norm_name removes, in the list's order
NAME_TOKENS == <<
    <<" ","P","R","I","V","A","T","E"," ","L","I","M","I","T","E","D">>,
    <<" ","P","V","T"," ","L","T","D">>,
    <<" ","L","T","D">>,
    <<" ","L","I","M","I","T","E","D">>,
    <<" ","L","L","P">>,
    <<" ","P","A","R","T","N","E","R","S","H","I","P"," ","F","I","R","M">>,
    <<" ","F","I","R","M">>,
    <<" ","C","O","M","P","A","N","Y">> >>

RECURSIVE RemoveFrom(_, _, _)
\* s.replace(t, "") from position i on: non-overlapping occurrences, left to right
RemoveFrom(s, t, i) ==
    IF i > Len(s) THEN << >>
    ELSE IF i + Len(t) - 1 <= Len(s) /\ SubSeq(s, i, i + Len(t) - 1) = t
         THEN RemoveFrom(s, t, i + Len(t))
         ELSE <<s[i]>> \o RemoveFrom(s, t, i + 1)

RECURSIVE RemoveTokens(_, _)
\* the loop over the tokens, from token k on
RemoveTokens(s, k) ==
    IF k > Len(NAME_TOKENS) THEN s
    ELSE RemoveTokens(RemoveFrom(s, NAME_TOKENS[k], 1), k + 1)

\* [A-Z0-9& ]
NameChars == RangeOf(UpperChars) \cup DigitChars \cup {"&", " "}

RECURSIVE Squeeze(_, _, _)
\* the two re.sub calls and strip(): every run of characters outside [A-Z0-9&]
\* becomes one blank, and no blank stays at either end
Squeeze(s, i, acc) ==
    IF i > Len(s)
    THEN IF acc # << >> /\ acc[Len(acc)] = " " THEN SubSeq(acc, 1, Len(acc) - 1) ELSE acc
    ELSE IF s[i] \in NameChars \ {" "}
         THEN Squeeze(s, i + 1, Append(acc, s[i]))
         ELSE IF acc = << >> \/ acc[Len(acc)] = " "
              THEN Squeeze(s, i + 1, acc)
              ELSE Squeeze(s, i + 1, Append(acc, " "))

norm_name(s) == Squeeze(RemoveTokens(Upper(s), 1), 1, << >>)

\* the pattern extract_facts searches for each fact
FACT_RX == [pan |-> "PAN_RX", gstin |-> "GSTIN_RX", cin |-> "CIN_RX",
            llpin |-> "LLPIN_RX", name |-> "NAME_RX"]

\* the search's first match in chunk i runs into a later chunk of the window (its
\* value may be a blank name)
RunsOver(window, field, i) ==
    /\ window[i].ids_over[field] # << >>
    /\ \E o \in window[i].over : o.rx = FACT_RX[field] /\ i + o.span <= Len(window)

RECURSIVE FirstMatch(_, _, _)
\* pattern.search on "\n".join(window): the leftmost match, found in the first chunk
\* where a match starts, be it one inside the chunk or one that runs over its end;
\* the value is the matched text (m.group(0), m.group(1) for the name), << >> when
\* the search returns None
FirstMatch(window, field, i) ==
    IF i > Len(window) THEN << >>
    ELSE IF RunsOver(window, field, i) THEN window[i].ids_over[field]
    ELSE IF window[i].ids[field] # << >> THEN window[i].ids[field]
         ELSE FirstMatch(window, field, i + 1)

\* the chunks run() reads facts from
FACT_CHUNKS == 3

\* the keys of the dict extract_facts returns, from what the five searches found: a
\* key is there for every match, "pan" also when it is derived, "name_key" with "name"
FactKeys(pan, gstin, cin, llpin, name) ==
    (IF pan # << >> \/ (gstin # << >> /\ Len(gstin) >= 12) THEN {"pan"} ELSE {})
    \cup (IF gstin # << >> THEN {"gstin"} ELSE {})
    \cup (IF cin # << >> THEN {"cin"} ELSE {})
    \cup (IF llpin # << >> THEN {"llpin"} ELSE {})
    \cup (IF name # << >> THEN {"name", "name_key"} ELSE {})

\* a slip of the derivation: the PAN inside a GSTIN replaces a PAN found in the text
extract_facts_always_derives(window) ==
    LET pan   == FirstMatch(window, "pan", 1)
        gstin == FirstMatch(window, "gstin", 1)
        name  == FirstMatch(window, "name", 1)
    IN  [pan      |-> IF gstin # << >> /\ Len(gstin) >= 12
                      THEN SubSeq(gstin, 3, 12) ELSE pan,
         gstin    |-> gstin,
         cin      |-> FirstMatch(window, "cin", 1),
         llpin    |-> FirstMatch(window, "llpin", 1),
         \* facts["name"] = m.group(1).strip(): empty when the match is blank
         name     |-> Strip(name),
         \* if "name" in facts: facts["name_key"] = norm_name(facts["name"])
         name_key |-> IF name # << >> THEN norm_name(Strip(name)) ELSE << >>,
         keys     |-> FactKeys(pan, gstin, FirstMatch(window, "cin", 1),
                               FirstMatch(window, "llpin", 1), name)]

\* extract_facts on the window: the value of every fact, << >> for a fact that is
\* absent or empty, and the keys that are there
extract_facts(window) ==
    LET pan   == FirstMatch(window, "pan", 1)
        gstin == FirstMatch(window, "gstin", 1)
        name  == FirstMatch(window, "name", 1)
    IN  [pan      |-> IF gstin # << >> /\ pan = << >> /\ Len(gstin) >= 12
                      THEN SubSeq(gstin, 3, 12) ELSE pan,
         gstin    |-> gstin,
         cin      |-> FirstMatch(window, "cin", 1),
         llpin    |-> FirstMatch(window, "llpin", 1),
         \* facts["name"] = m.group(1).strip(): empty when the match is blank
         name     |-> Strip(name),
         \* if "name" in facts: facts["name_key"] = norm_name(facts["name"])
         name_key |-> IF name # << >> THEN norm_name(Strip(name)) ELSE << >>,
         keys     |-> FactKeys(pan, gstin, FirstMatch(window, "cin", 1),
                               FirstMatch(window, "llpin", 1), name)]

\* the fact names entity_key tries, strongest first, as field and as spelled text
KEY_ORDER == <<
    [field |-> "pan", text |-> <<"p","a","n">>],
    [field |-> "gstin", text |-> <<"g","s","t","i","n">>],
    [field |-> "llpin", text |-> <<"l","l","p","i","n">>],
    [field |-> "cin", text |-> <<"c","i","n">>],
    [field |-> "name_key", text |-> <<"n","a","m","e","_","k","e","y">>] >>

\* None as an entity key (a key is never the empty string)
NoKey == << >>

RECURSIVE KeyFrom(_, _)
KeyFrom(f, k) ==
    IF k > Len(KEY_ORDER) THEN NoKey
    ELSE IF f[KEY_ORDER[k].field] # << >>
         THEN KEY_ORDER[k].text \o <<":">> \o f[KEY_ORDER[k].field]
         ELSE KeyFrom(f, k + 1)

\* entity_key(f): f"{k}:{f[k]}" for the first k with `k in f and f[k]`
entity_key(f) == KeyFrom(f, 1)

DEV_STRONG == {"tan", "msme", "lei", "sanction_soa", "cibil", "bank_stmt_entity"}

DEV_COMMON == {"gst_pan", "financials_3y", "itrs_3y", "coi_moa_aoa", "partnership_deed",
               "llp_agreement"}

\* the substrings the slug tests look for
in_tan == <<"t","a","n">>

in_msme == <<"m","s","m","e">>

in_lei == <<"l","e","i">>

in_sanction == <<"s","a","n","c","t","i","o","n">>

in_soa == <<"s","o","a">>

in_cibil == <<"c","i","b","i","l">>

in_bank_stmt == <<"b","a","n","k","_","s","t","m","t">>

in_directors == <<"d","i","r","e","c","t","o","r","s">>

in_gst_pan == <<"g","s","t","_","p","a","n">>

in_financial == <<"f","i","n","a","n","c","i","a","l">>

in_itrs == <<"i","t","r","s">>

in_moa_aoa == <<"m","o","a","_","a","o","a">>

in_incorp == <<"i","n","c","o","r","p">>

in_partnership_deed == <<"p","a","r","t","n","e","r","s","h","i","p","_","d","e","e","d">>

in_llp_agreement == <<"l","l","p","_","a","g","r","e","e","m","e","n","t">>

in_llp_word == <<" ","l","l","p"," ">>

in_partnership == <<"p","a","r","t","n","e","r","s","h","i","p">>

in_coi == <<"c","o","i">>

\* the spelling of the slugs the documents carry
SlugText ==
    [s \in {"dev_company_tan", "dev_company_gst_pan", "ts_rera_certificate", "ka_rera", "dev_llp_agreement_incorp", "dev_partnership_deed_registration", "directors_bank_stmt_1y", "dev_company_bank_stmt", "dev_company_moa_aoa_incorp"} |->
        IF s = "dev_company_tan" THEN <<"d","e","v","_","c","o","m","p","a","n","y","_","t","a","n">>
        ELSE IF s = "dev_company_gst_pan" THEN <<"d","e","v","_","c","o","m","p","a","n","y","_","g","s","t","_","p","a","n">>
        ELSE IF s = "ts_rera_certificate" THEN <<"t","s","_","r","e","r","a","_","c","e","r","t","i","f","i","c","a","t","e">>
        ELSE IF s = "ka_rera" THEN <<"k","a","_","r","e","r","a">>
        ELSE IF s = "dev_llp_agreement_incorp" THEN <<"d","e","v","_","l","l","p","_","a","g","r","e","e","m","e","n","t","_","i","n","c","o","r","p">>
        ELSE IF s = "dev_partnership_deed_registration" THEN <<"d","e","v","_","p","a","r","t","n","e","r","s","h","i","p","_","d","e","e","d","_","r","e","g","i","s","t","r","a","t","i","o","n">>
        ELSE IF s = "directors_bank_stmt_1y" THEN <<"d","i","r","e","c","t","o","r","s","_","b","a","n","k","_","s","t","m","t","_","1","y">>
        ELSE IF s = "dev_company_bank_stmt" THEN <<"d","e","v","_","c","o","m","p","a","n","y","_","b","a","n","k","_","s","t","m","t">>
        ELSE <<"d","e","v","_","c","o","m","p","a","n","y","_","m","o","a","_","a","o","a","_","i","n","c","o","r","p">>]

\* (row.get("canonical_slug") or "").lower()
SlugLower(slug) == IF slug = None THEN << >> ELSE Lower(SlugText[slug])

\* feature_from_slug(slug) on the lowered slug text; None when no test passes
feature_from_slug(s) ==
    IF Contains(s, in_tan) THEN "tan"
    ELSE IF Contains(s, in_msme) THEN "msme"
    ELSE IF Contains(s, in_lei) THEN "lei"
    ELSE IF Contains(s, in_sanction) \/ Contains(s, in_soa) THEN "sanction_soa"
    ELSE IF Contains(s, in_cibil) THEN "cibil"
    ELSE IF Contains(s, in_bank_stmt) /\ ~Contains(s, in_directors) THEN "bank_stmt_entity"
    ELSE IF Contains(s, in_gst_pan) THEN "gst_pan"
    ELSE IF Contains(s, in_financial) THEN "financials_3y"
    ELSE IF Contains(s, in_itrs) THEN "itrs_3y"
    ELSE IF Contains(s, in_moa_aoa) \/ Contains(s, in_incorp) THEN "coi_moa_aoa"
    ELSE IF Contains(s, in_partnership_deed) THEN "partnership_deed"
    ELSE IF Contains(s, in_llp_agreement) THEN "llp_agreement"
    ELSE None

RECURSIVE JoinBlank(_, _)
\* " ".join(slugs) from slug i on
JoinBlank(slugs, i) ==
    IF i > Len(slugs) THEN << >>
    ELSE IF i = Len(slugs) THEN slugs[i]
         ELSE slugs[i] \o <<" ">> \o JoinBlank(slugs, i + 1)

\* a slip of the tests: only the agreement and the deed count
org_variant_from_slugs_deed_only(slugs) ==
    LET s == JoinBlank(slugs, 1)
    IN  IF Contains(s, in_llp_agreement) THEN "llp"
        ELSE IF Contains(s, in_partnership_deed) THEN "partnership"
        ELSE "company"

\* org_variant_from_slugs(slugs)
org_variant_from_slugs(slugs) ==
    LET s == JoinBlank(slugs, 1)
    IN  IF Contains(s, in_llp_agreement) \/ Contains(s, in_llp_word) THEN "llp"
        ELSE IF Contains(s, in_partnership_deed) \/ Contains(s, in_partnership) THEN "partnership"
        ELSE IF Contains(s, in_moa_aoa) \/ Contains(s, in_incorp) \/ Contains(s, in_coi)
             THEN "company"
        ELSE "company"

\* a Counter over the features: feature -> count, 0 where it was never counted
NoFeatures == [f \in DEV_STRONG \cup DEV_COMMON |-> 0]

RECURSIVE SumOver(_, _)
SumOver(S, features) ==
    IF S = {} THEN 0
    ELSE LET f == CHOOSE x \in S : TRUE
         IN  features[f] + SumOver(S \ {f}, features)

\* the score a strong feature adds per document
STRONG_POINTS == 2

\* the score a common feature adds per document
COMMON_POINTS == 1

\* score_role(features): (dev, group)
score_role(features) ==
    [dev   |-> STRONG_POINTS * SumOver(DEV_STRONG, features)
               + COMMON_POINTS * SumOver(DEV_COMMON, features),
     group |-> SumOver(DEV_COMMON, features)]

\* the first pass of run(): (row, key, facts, slug) of every document
doc_info_of(rows) ==
    [i \in 1..Len(rows) |->
        LET facts == extract_facts(FirstChunks(docs[rows[i]].chunks, FACT_CHUNKS))
        IN  [row   |-> DocRow(rows[i]),
             key   |-> entity_key(facts),
             facts |-> facts,
             slug  |-> SlugLower(store[rows[i]].canonical_slug)]]

\* one document joins the cluster of its key, or opens it
AddToCluster(clusters, info) ==
    LET f == feature_from_slug(info.slug)
    IN  IF \E k \in 1..Len(clusters) : clusters[k].key = info.key
        THEN LET k == CHOOSE j \in 1..Len(clusters) : clusters[j].key = info.key
                 c == clusters[k]
             IN  [clusters EXCEPT ![k] =
                    [c EXCEPT !.docs = Append(@, info.row),
                              !.slugs = Append(@, info.slug),
                              !.features = IF f = None THEN @
                                           ELSE [@ EXCEPT ![f] = @ + 1]]]
        ELSE Append(clusters,
                    [key |-> info.key, docs |-> <<info.row>>, slugs |-> <<info.slug>>,
                     features |-> IF f = None THEN NoFeatures
                                  ELSE [NoFeatures EXCEPT ![f] = 1],
                     facts |-> info.facts])

RECURSIVE cluster_docs_keeps_keyless(_, _, _)
\* a slip of the clustering loop: a document without a key is not skipped
cluster_docs_keeps_keyless(doc_info, i, clusters) ==
    IF i > Len(doc_info) THEN clusters
    ELSE cluster_docs_keeps_keyless(doc_info, i + 1, AddToCluster(clusters, doc_info[i]))

RECURSIVE cluster_docs(_, _, _)
\* the clustering loop: clusters in the order their keys first appear
cluster_docs(doc_info, i, clusters) ==
    IF i > Len(doc_info) THEN clusters
    ELSE IF doc_info[i].key = NoKey
         THEN cluster_docs(doc_info, i + 1, clusters)
         ELSE cluster_docs(doc_info, i + 1, AddToCluster(clusters, doc_info[i]))

\* the tuple scored for one cluster
ScoreCluster(c) ==
    LET sc == score_role(c.features)
    IN  [key |-> c.key, dev |-> sc.dev, group |-> sc.group,
         variant |-> org_variant_from_slugs(c.slugs), docs |-> c.docs]

\* (a.dev, a.group) > (b.dev, b.group) as tuples
KeyGreater(a, b) == a.dev > b.dev \/ (a.dev = b.dev /\ a.group > b.group)

RECURSIVE RoleInsert(_, _)
\* the place of one cluster among those already sorted: after every cluster whose
\* sort key is not smaller (the sort is stable, also with reverse=True)
RoleInsert(sorted, rec) ==
    IF sorted = << >> THEN <<rec>>
    ELSE IF KeyGreater(rec, Head(sorted))
         THEN <<rec>> \o sorted
         ELSE <<Head(sorted)>> \o RoleInsert(Tail(sorted), rec)

\* a slip of the ranking: the clusters stay in the order their keys first appear
RoleSort_unsorted(recs, i, acc) == recs

RECURSIVE RoleSort(_, _, _)
\* scored.sort(key=lambda x: (x[1], x[2]), reverse=True)
RoleSort(recs, i, acc) ==
    IF i > Len(recs) THEN acc
    ELSE RoleSort(recs, i + 1, RoleInsert(acc, recs[i]))

\* the role run() gives the cluster of `key`
RoleOf(key, dev_key, grp_key) ==
    IF key = dev_key THEN "developer_entity"
    ELSE IF key = grp_key THEN "group_entity"
    ELSE "other_entity"

\* a slip of the write-back: every written document is sent back to unassigned
RoleCall_resets_status(row, role, variant) ==
    UpdateCall(row.id, row.canonical_slug, role, variant, row.state_variant,
               row.confidence, "unassigned")

\* the update run() makes for one document of a cluster
RoleCall(row, role, variant) ==
    UpdateCall(row.id, row.canonical_slug, role, variant, row.state_variant,
               row.confidence,
               \* row.get("status") or "unassigned": an empty status counts as none
               IF row.status = None \/ row.status = "" THEN "unassigned" ELSE row.status)

\* everything run() computes before its write-back loop; `state` and `apply` are
\* parameters the body never reads (apply is kept to tell how the run was called)
role_plan(state, apply) ==
    LET clusters == cluster_docs(doc_info_of(get_documents(NoNumber)), 1, << >>)
        scored   == RoleSort([k \in 1..Len(clusters) |-> ScoreCluster(clusters[k])],
                             1, << >>)
    IN  [kind |-> "roles", apply |-> apply,
         scored |-> scored,
         dev_key |-> IF scored = << >> THEN NoKey ELSE scored[1].key,
         grp_key |-> IF scored = << >> THEN NoKey
                     ELSE IF Len(scored) > 1 THEN scored[2].key
                     ELSE scored[1].key,
         c |-> 1, d |-> 1]

\* the start of a role run, up to the write-back loop
StartRoles(state, apply) ==
    /\ pc \in {"idle", "classify_done", "roles_done", "roles_none"}
    /\ now <= MaxClock
    /\ run' = role_plan(state, apply)
    /\ writes' = << >>
    /\ pc' = "roles"
    /\ UNCHANGED <<inp, out, docs, store, now>>

\* one turn of the inner write-back loop: the update of one document
RoleWrite ==
    /\ pc = "roles"
    /\ run.c <= Len(run.scored)
    /\ LET cl == run.scored[run.c]
       IN  /\ update_match(RoleCall(cl.docs[run.d],
                                    RoleOf(cl.key, run.dev_key, run.grp_key), cl.variant))
           /\ run' = IF run.d < Len(cl.docs)
                     THEN [run EXCEPT !.d = @ + 1]
                     ELSE [run EXCEPT !.c = @ + 1, !.d = 1]
    /\ UNCHANGED <<inp, out, docs, pc>>

\* the end of run(): no cluster was formed, which is reported as "nothing to
\* assign" before anything is scored, or the write-back loop is over
FinishRoles ==
    /\ pc = "roles"
    /\ run.c > Len(run.scored)
    /\ pc' = IF run.scored = << >> THEN "roles_none" ELSE "roles_done"
    /\ UNCHANGED <<inp, out, docs, store, run, writes, now>>

(***************************************************************************)
(* Spec: classification runs and role runs over one corpus                 *)
(***************************************************************************)
\* documents: name, chunks, and what the libraries return for them
doc_gst  == [name |-> name_gst,  chunks |-> <<chunk_gstin>>,     fuzz |-> fuzz_gst,  cos |-> cos_rera]

doc_rera == [name |-> name_rera, chunks |-> <<chunk_rera_name>>, fuzz |-> fuzz_none, cos |-> cos_low]

doc_scan == [name |-> name_scan, chunks |-> <<chunk_empty>>,     fuzz |-> fuzz_all,  cos |-> cos_high]

doc_deed == [name |-> name_deed, chunks |-> <<chunk_tan_cin>>,   fuzz |-> fuzz_tan,  cos |-> cos_tan]

\* the documents a corpus is made of
DocKinds == {doc_gst, doc_rera, doc_scan}

Doc(id, kind) ==
    [id |-> id, name |-> kind.name, chunks |-> kind.chunks, fuzz |-> kind.fuzz,
     cos |-> kind.cos]

\* the row of a document nothing has been written to
FreshRow == AtStart(Row(None, None, None, NoState, NoNumber, None))

\* the states the command line and the page pass
RunStates == {TS, KA}

\* --limit: absent, or a number
Limits == {NoNumber, 1}

\* the corpus as ingested; whether an embedding model can be loaded is a fact
\* of the installation
Init ==
    /\ \E n \in 0..MaxDocs : \E c \in [1..n -> DocKinds] :
          /\ docs = [i \in 1..n |-> Doc(i, c[i])]
          /\ store = [i \in 1..n |-> FreshRow]
    /\ inp \in [embedder : BOOLEAN]
    /\ out = Nil
    /\ pc = "idle"
    /\ run = Nil
    /\ writes = << >>
    /\ now = 1

Next ==
    \/ \E state \in RunStates, limit \in Limits, apply \in BOOLEAN :
          StartClassify(state, limit, apply, inp.embedder)
    \/ ClassifyDoc
    \/ FinishClassify
    \/ \E state \in RunStates, apply \in BOOLEAN : StartRoles(state, apply)
    \/ RoleWrite
    \/ FinishRoles

Spec == Init /\ [][Next]_vars

(***************************************************************************)
(* SpecRoles: role runs over a corpus that has been categorized            *)
(***************************************************************************)
\* a row as a classification or a manual override left it, or as it was inserted
\* into the table (the status column of an inserted row may be NULL or empty)
StoredRow(slug, status) ==
    IF slug = None THEN FreshRow
    ELSE AtStart(Row(slug, "developer_entity", "company", NoState, 8500, status))

\* documents with the slug and the status their row carries when the role run starts
RoleDocs == {
    [kind |-> doc_gst,  slug |-> "dev_company_tan",          status |-> "accepted"],
    [kind |-> doc_gst,  slug |-> None,                       status |-> None],
    [kind |-> doc_rera, slug |-> "dev_llp_agreement_incorp", status |-> "accepted"],
    [kind |-> doc_rera, slug |-> "dev_company_tan",          status |-> ""],
    [kind |-> doc_deed, slug |-> "dev_llp_agreement_incorp", status |-> "accepted"],
    [kind |-> doc_deed, slug |-> None,                       status |-> None],
    [kind |-> doc_scan, slug |-> "dev_company_tan",          status |-> "accepted"] }

InitRoles ==
    /\ \E n \in 1..(MaxDocs + 1) : \E c \in [1..n -> RoleDocs] :
          /\ docs = [i \in 1..n |-> Doc(i, c[i].kind)]
          /\ store = [i \in 1..n |-> StoredRow(c[i].slug, c[i].status)]
    /\ inp = Nil
    /\ out = Nil
    /\ pc = "idle"
    /\ run = Nil
    /\ writes = << >>
    /\ now = 1

NextRoles ==
    \/ \E apply \in BOOLEAN : StartRoles(TS, apply)
    \/ RoleWrite
    \/ FinishRoles

SpecRoles == InitRoles /\ [][NextRoles]_vars

(***************************************************************************)
(* SpecStore: runs and manual overrides over a store every row of which    *)
(* has been settled                                                         *)
(***************************************************************************)
\* the statuses the page offers in its filter
STATUSES == {"accepted", "needs_review", "unassigned", "duplicate"}

\* rows as an applied classification, a manual override and a deduplication left them
AcceptedRow ==
    AtStart(Row("dev_company_tan", "developer_entity", "company", NoState, 8500, "accepted"))

OverriddenRow ==
    AtStart(Row("dev_company_gst_pan", "group_entity", "llp", TS, NoNumber, "needs_review"))

DuplicateRow ==
    AtStart(Row("dev_company_tan", "developer_entity", "company", NoState, 8500, "duplicate"))

SettledRows == {AcceptedRow, OverriddenRow, DuplicateRow}

\* documents with the row they have at the start
StoreDocs == {
    [kind |-> doc_gst,  row |-> AcceptedRow],
    [kind |-> doc_gst,  row |-> OverriddenRow],
    [kind |-> doc_rera, row |-> DuplicateRow],
    [kind |-> doc_rera, row |-> OverriddenRow],
    [kind |-> doc_scan, row |-> OverriddenRow] }

\* what the page's select boxes offer for the top entity and the org variant
TOP_ENTITIES == {"developer_entity", "group_entity", "directors_partners",
                 "project_land_documents", "project_approvals_documents",
                 "legal_documents", "other_project_documents"}

ORG_VARIANTS == {"company", "partnership", "llp", "na"}

\* the choices exercised
OverrideSlugs == {"dev_company_tan"}

OverrideTops == {"legal_documents"}

OverrideOrgs == {"na"}

\* the update of the "Apply override" button
OverrideCall(doc_id, cslug, new_top, new_org, state) ==
    UpdateCall(doc_id, cslug, new_top, new_org, state, NoNumber, "needs_review")

\* section 3 of the page: one document is given a slug of the catalog filtered by the
\* state of the sidebar, a top entity and an org variant; the override is an operation
\* of its own, whose only update is the one it makes
ManualOverride(doc_id, cslug, new_top, new_org, state) ==
    /\ pc \in {"idle", "classify_done", "roles_done", "roles_none"}
    /\ now <= MaxClock
    /\ doc_id \in 1..Len(docs)
    /\ \E k \in 1..Len(filter_by_state(Catalog, state)) :
          filter_by_state(Catalog, state)[k].slug = cslug
    /\ new_top \in TOP_ENTITIES
    /\ new_org \in ORG_VARIANTS
    /\ store' = [store EXCEPT ![doc_id] =
                     Stamped(OverrideCall(doc_id, cslug, new_top, new_org, state).row, now)]
    /\ writes' = <<Executed(OverrideCall(doc_id, cslug, new_top, new_org, state), now)>>
    /\ now' = now + 1
    /\ UNCHANGED <<inp, out, docs, pc, run>>

InitStore ==
    /\ \E n \in 1..MaxDocs : \E c \in [1..n -> StoreDocs] :
          /\ docs = [i \in 1..n |-> Doc(i, c[i].kind)]
          /\ store = [i \in 1..n |-> c[i].row]
    /\ inp = [embedder |-> TRUE]
    /\ out = Nil
    /\ pc = "idle"
    /\ run = Nil
    /\ writes = << >>
    /\ now = 1

NextStore ==
    \/ StartClassify(TS, NoNumber, TRUE, inp.embedder)
    \/ ClassifyDoc
    \/ FinishClassify
    \/ StartRoles(TS, TRUE)
    \/ RoleWrite
    \/ FinishRoles
    \/ \E doc_id \in 1..MaxDocs, cslug \in OverrideSlugs, new_top \in OverrideTops,
          new_org \in OverrideOrgs :
          ManualOverride(doc_id, cslug, new_top, new_org, TS)

SpecStore == InitStore /\ [][NextStore]_vars

(***************************************************************************)
(* SpecVariant: org_variant_from_slugs on the slugs of one cluster         *)
(***************************************************************************)
\* slugs of the catalog that name an organisation form without its deed or agreement
slug_partnership_tan == <<"d","e","v","_","p","a","r","t","n","e","r","s","h","i","p","_","t","a","n">>

slug_llp_tan == <<"d","e","v","_","l","l","p","_","t","a","n">>

\* a slug that is the word itself
slug_llp == <<"l","l","p">>

\* the lowered slugs a member of a cluster may carry; empty for a row without a slug
VariantSlugs == {
    << >>,
    SlugLower("dev_company_tan"),
    SlugLower("dev_company_moa_aoa_incorp"),
    SlugLower("dev_llp_agreement_incorp"),
    SlugLower("dev_partnership_deed_registration"),
    slug_partnership_tan,
    slug_llp_tan,
    slug_llp }

\* the most members of a cluster
MaxSlugs == 3

InitVariant ==
    /\ \E n \in 1..MaxSlugs : \E s \in [1..n -> VariantSlugs] : inp = [slugs |-> s]
    /\ out = Nil
    /\ pc = "call"
    /\ docs = << >>
    /\ store = << >>
    /\ run = Nil
    /\ writes = << >>
    /\ now = 1

\* variant = org_variant_from_slugs(c["slugs"])
EvalVariant ==
    /\ pc = "call"
    /\ out' = [variant |-> org_variant_from_slugs(inp.slugs)]
    /\ pc' = "done"
    /\ UNCHANGED <<inp, docs, store, run, writes, now>>

NextVariant == EvalVariant

SpecVariant == InitVariant /\ [][NextVariant]_vars

(***************************************************************************)
(* SpecKeys: the facts and the entity key of one document                  *)
(***************************************************************************)
\* the PAN that gstin_1 carries in its characters 3..12
pan_1 == <<"A","B","C","D","E","1","2","3","4","F">>

pan_2 == <<"P","Q","R","S","T","5","6","7","8","K">>

\* LLPIN_RX matches from the word LLPIN on
llpin_1 == <<"L","L","P","I","N",":"," ","A","A","B","-","1","2","3","4">>

\* a name NAME_RX captures that has no letter or digit
name_dashes == <<"-","-","-">>

\* the facts besides PAN and GSTIN that one chunk may show
OtherFacts == {
    [cin |-> << >>,  llpin |-> << >>,    name |-> << >>],
    [cin |-> << >>,  llpin |-> llpin_1,  name |-> << >>],
    [cin |-> cin_1,  llpin |-> << >>,    name |-> << >>],
    [cin |-> cin_1,  llpin |-> llpin_1,  name |-> << >>],
    [cin |-> << >>,  llpin |-> << >>,    name |-> name_1],
    [cin |-> << >>,  llpin |-> << >>,    name |-> name_dashes] }

IdSamples ==
    {Ids(p, g, o.cin, o.llpin, o.name) :
        p \in {<< >>, pan_1, pan_2}, g \in {<< >>, gstin_1}, o \in OtherFacts}

\* a chunk whose text is the lines "PAN <pan>", "<gstin>", "<cin>", "<llpin>" and
\* "Name: <name>" of the facts it shows
FactChunk(ids) ==
    [rx  |-> (IF ids.pan # << >> THEN {"PAN_RX"} ELSE {})
             \cup (IF ids.gstin # << >> THEN {"GSTIN_RX"} ELSE {})
             \cup (IF ids.cin # << >> THEN {"CIN_RX"} ELSE {})
             \cup (IF ids.llpin # << >> THEN {"LLPIN_RX", "COMPANY_MARKERS_RX"} ELSE {})
             \cup (IF ids.name = name_1 THEN {"COMPANY_MARKERS_RX"} ELSE {}),
     kw  |-> {},
     emb |-> FALSE,
     len |-> (IF ids.pan # << >> THEN Len(ids.pan) + 5 ELSE 0)
             + (IF ids.gstin # << >> THEN Len(ids.gstin) + 1 ELSE 0)
             + (IF ids.cin # << >> THEN Len(ids.cin) + 1 ELSE 0)
             + (IF ids.llpin # << >> THEN Len(ids.llpin) + 1 ELSE 0)
             + (IF ids.name # << >> THEN Len(ids.name) + 7 ELSE 0),
     ids |-> ids, over |-> {}, kw_over |-> {}, ids_over |-> NoIds]

\* the LLPIN whose number stands in the chunk after the word
llpin_over == <<"L","L","P","I","N",":","\n","A","A","B","-","1","2","3","4">>

\* "Registered office, Hyderabad. Name:" before "Sunrise Builders Pvt. Ltd"
chunk_name_head == [rx |-> {}, kw |-> {}, emb |-> FALSE, len |-> 35, ids |-> NoIds,
                    over |-> {[rx |-> "NAME_RX", span |-> 1]}, kw_over |-> {},
                    ids_over |-> Ids(<< >>, << >>, << >>, << >>, name_1)]

chunk_name_tail == [rx |-> {"COMPANY_MARKERS_RX"}, kw |-> {}, emb |-> FALSE, len |-> 25,
                    ids |-> NoIds, over |-> {}, kw_over |-> {}, ids_over |-> NoIds]

\* "details of the firm LLPIN:" before "AAB-1234 issued by the registrar"
chunk_llpin_head == [rx |-> {"COMPANY_MARKERS_RX"}, kw |-> {}, emb |-> FALSE, len |-> 26,
                     ids |-> NoIds, over |-> {[rx |-> "LLPIN_RX", span |-> 1]},
                     kw_over |-> {},
                     ids_over |-> Ids(<< >>, << >>, << >>, llpin_over, << >>)]

chunk_llpin_tail == [rx |-> {}, kw |-> {}, emb |-> FALSE, len |-> 32, ids |-> NoIds,
                     over |-> {}, kw_over |-> {}, ids_over |-> NoIds]

\* what NAME_RX captures on "Name: ______": the blank after the colon
name_blank == <<" ">>

\* what NAME_RX captures on "; Name: Zed Homes " (a blank ends the line)
name_zed == <<"Z","e","d"," ","H","o","m","e","s"," ">>

\* "Name: ______"
chunk_name_blank == [rx |-> {}, kw |-> {}, emb |-> FALSE, len |-> 12,
                     ids |-> Ids(<< >>, << >>, << >>, << >>, name_blank),
                     over |-> {}, kw_over |-> {}, ids_over |-> NoIds]

\* "; Name: Zed Homes "
chunk_name_zed == [rx |-> {}, kw |-> {}, emb |-> FALSE, len |-> 18,
                   ids |-> Ids(<< >>, << >>, << >>, << >>, name_zed),
                   over |-> {}, kw_over |-> {}, ids_over |-> NoIds]

\* "Account Name -" before " ": the match ends with the blank of the next chunk
chunk_acct_name == [rx |-> {}, kw |-> {}, emb |-> FALSE, len |-> 14, ids |-> NoIds,
                    over |-> {[rx |-> "NAME_RX", span |-> 1]}, kw_over |-> {},
                    ids_over |-> Ids(<< >>, << >>, << >>, << >>, name_blank)]

\* " "
chunk_blank == [rx |-> {}, kw |-> {}, emb |-> FALSE, len |-> 1, ids |-> NoIds,
                over |-> {}, kw_over |-> {}, ids_over |-> NoIds]

\* windows whose first name is blank, and one whose name ends with a blank
BlankNameWindows ==
    { <<chunk_name_blank>>,
      <<chunk_name_zed>>,
      <<chunk_name_blank, FactChunk(Ids(<< >>, << >>, << >>, << >>, name_1))>>,
      <<chunk_name_blank, FactChunk(Ids(<< >>, << >>, cin_1, << >>, << >>))>>,
      <<chunk_acct_name, chunk_blank, chunk_name_zed>>,
      <<FactChunk(Ids(<< >>, << >>, cin_1, << >>, << >>)), chunk_acct_name, chunk_blank>>,
      <<chunk_empty, chunk_empty, chunk_acct_name, chunk_blank>> }

\* the most chunks of a document that show facts
MaxFacts == 2

\* the chunk lists of the document: up to MaxFacts chunks with facts, or three
\* empty chunks before one with facts (which the run does not read)
FactWindows ==
    UNION { [1..n -> {FactChunk(ids) : ids \in IdSamples}] : n \in 1..MaxFacts }
    \cup { <<chunk_empty, chunk_empty, chunk_empty, FactChunk(ids)>> : ids \in IdSamples }
    \cup { <<chunk_name_head, chunk_name_tail>>, <<chunk_llpin_head, chunk_llpin_tail>>,
           <<chunk_empty, chunk_empty, chunk_name_head, chunk_name_tail>> }
    \cup BlankNameWindows

InitKeys ==
    /\ \E w \in FactWindows :
          docs = <<[id |-> 1, name |-> name_deed, chunks |-> w,
                    fuzz |-> fuzz_none, cos |-> cos_low]>>
    /\ store = <<FreshRow>>
    /\ inp = Nil
    /\ out = Nil
    /\ pc = "call"
    /\ run = Nil
    /\ writes = << >>
    /\ now = 1

\* the first pass of the role run and its clustering loop on the one document
EvalKey ==
    /\ pc = "call"
    /\ out' = [info |-> doc_info_of(get_documents(NoNumber))[1],
               clusters |-> cluster_docs(doc_info_of(get_documents(NoNumber)), 1, << >>)]
    /\ pc' = "done"
    /\ UNCHANGED <<inp, docs, store, run, writes, now>>

NextKeys == EvalKey

SpecKeys == InitKeys /\ [][NextKeys]_vars

(***************************************************************************)
(* SpecFaults: runs against a store whose updates may fail, and with a     *)
(* catalog file of any structure                                           *)
(***************************************************************************)
\* what json.load may return for the catalog file, by what load_sot does with it: a
\* list of categories, an object whose "categories" is such a list, an object whose
\* "categories" is an empty object, an object whose "categories" is null, and an
\* object without "categories"
RawCatalogs == {"list", "categories_list", "categories_empty_object", "categories_null",
                "object"}

\* load_sot: the categories of the file; ValueError for a value that is neither a
\* list nor an object with "categories"; the loop over "categories" runs zero times
\* on an empty object and raises TypeError on null
load_sot(raw) ==
    IF raw = "list" \/ raw = "categories_list"
    THEN [raised |-> None, cats |-> Catalog]
    ELSE IF raw = "categories_empty_object"
         THEN [raised |-> None, cats |-> << >>]
         ELSE IF raw = "categories_null"
              THEN [raised |-> "TypeError", cats |-> << >>]
              ELSE [raised |-> "ValueError", cats |-> << >>]

\* run() from its first line: load_sot raises, or the run goes on to its loop
StartRun(state, limit, apply) ==
    /\ pc \in {"idle", "classify_done", "roles_done", "roles_none"}
    /\ now <= MaxClock
    /\ IF load_sot(inp.sot).raised = None
       THEN /\ run' = plan_from(load_sot(inp.sot).cats, state, limit, apply, inp.embedder)
            /\ writes' = << >>
            /\ pc' = "classify"
            /\ UNCHANGED <<inp, out, docs, store, now>>
       ELSE /\ pc' = "failed"
            /\ out' = [raised |-> load_sot(inp.sot).raised, doc_id |-> 0]
            /\ UNCHANGED <<inp, docs, store, run, writes, now>>

\* one turn of the loop with no candidate category: scored[0] raises IndexError in
\* categorize_document and run() ends with it
ClassifyDocNoCandidate ==
    /\ pc = "classify"
    /\ run.i <= Len(run.rows)
    /\ run.cats = << >>
    /\ out' = [raised |-> "IndexError", doc_id |-> run.rows[run.i]]
    /\ pc' = "failed"
    /\ UNCHANGED <<inp, docs, store, run, writes, now>>

\* one turn of the loop in which update_match raises: the result has been appended,
\* nothing catches the exception and run() ends with it
ClassifyDocRaises ==
    /\ pc = "classify"
    /\ run.i <= Len(run.rows)
    /\ run.cats # << >>
    /\ run.apply
    /\ run' = [run EXCEPT !.results = Append(@, classify_row(run))]
    /\ out' = [raised |-> "update_match", doc_id |-> run.rows[run.i]]
    /\ pc' = "failed"
    /\ UNCHANGED <<inp, docs, store, writes, now>>

\* one turn of the write-back loop in which update_match raises
RoleWriteRaises ==
    /\ pc = "roles"
    /\ run.c <= Len(run.scored)
    /\ out' = [raised |-> "update_match", doc_id |-> run.scored[run.c].docs[run.d].id]
    /\ pc' = "failed"
    /\ UNCHANGED <<inp, docs, store, run, writes, now>>

InitFaults ==
    /\ \E n \in 1..MaxDocs : \E c \in [1..n -> DocKinds] :
          /\ docs = [i \in 1..n |-> Doc(i, c[i])]
          /\ store = [i \in 1..n |-> FreshRow]
    /\ inp \in [embedder : {TRUE}, sot : RawCatalogs]
    /\ out = Nil
    /\ pc = "idle"
    /\ run = Nil
    /\ writes = << >>
    /\ now = 1

NextFaults ==
    \/ \E state \in RunStates, apply \in BOOLEAN : StartRun(state, NoNumber, apply)
    \/ (pc = "classify" /\ run.cats # << >> /\ ClassifyDoc)
    \/ ClassifyDocNoCandidate
    \/ ClassifyDocRaises
    \/ FinishClassify
    \/ StartRoles(TS, TRUE)
    \/ RoleWrite
    \/ RoleWriteRaises
    \/ FinishRoles

SpecFaults == InitFaults /\ [][NextFaults]_vars

(***************************************************************************)
(* SpecTwice: a classification run and a second one over the same corpus   *)
(***************************************************************************)
\* the second run: run() is called again with the jurisdiction and the limit of the
\* first; what the first run printed and the table as it left it are kept in `out`
StartAgain(apply) ==
    /\ pc = "classify_done"
    /\ out = Nil
    /\ out' = [results |-> run.results, rows |-> run.rows, apply |-> run.apply,
               store |-> store]
    /\ run' = classify_plan(run.state, run.limit, apply, inp.embedder)
    /\ writes' = << >>
    /\ pc' = "classify"
    /\ UNCHANGED <<inp, docs, store, now>>

NextTwice ==
    \/ \E state \in RunStates, limit \in Limits, apply \in BOOLEAN :
          pc = "idle" /\ StartClassify(state, limit, apply, inp.embedder)
    \/ ClassifyDoc
    \/ FinishClassify
    \/ \E apply \in BOOLEAN : StartAgain(apply)

SpecTwice == Init /\ [][NextTwice]_vars

(***************************************************************************)
(* SpecOrder: one classification run whose documents are scored and        *)
(* written in any order. run() itself takes the rows in ascending id and    *)
(* writes each before it scores the next, which is one behaviour of this    *)
(* specification; the others are the orders and interleavings a parallel    *)
(* loop over the same rows would have                                       *)
(***************************************************************************)
\* run() up to its loop; `out` keeps the result of every row scored so far and the
\* rows whose update is committed
StartAnyOrder(state, limit, apply, has_embedder) ==
    /\ pc = "idle"
    /\ run' = classify_plan(state, limit, apply, has_embedder)
    /\ out' = [res |-> [k \in 1..Len(get_documents(limit)) |-> Nil], written |-> {}]
    /\ writes' = << >>
    /\ pc' = "classify"
    /\ UNCHANGED <<inp, docs, store, now>>

\* categorize_document for the k-th fetched row
ScoreAny(k) ==
    /\ pc = "classify"
    /\ k \in 1..Len(run.rows)
    /\ out.res[k] = Nil
    /\ out' = [out EXCEPT !.res[k] = classify_row([run EXCEPT !.i = k])]
    /\ UNCHANGED <<inp, docs, store, pc, run, writes, now>>

\* update_match for the k-th fetched row, once it has its result
WriteAny(k) ==
    /\ pc = "classify"
    /\ run.apply
    /\ k \in 1..Len(run.rows)
    /\ out.res[k] # Nil
    /\ k \notin out.written
    /\ update_match(ClassifyCall(out.res[k]))
    /\ out' = [out EXCEPT !.written = @ \cup {k}]
    /\ UNCHANGED <<inp, docs, pc, run>>

\* every row has its result and, when apply is set, its update
FinishAnyOrder ==
    /\ pc = "classify"
    /\ \A k \in 1..Len(run.rows) : out.res[k] # Nil /\ (run.apply => k \in out.written)
    /\ pc' = "classify_done"
    /\ UNCHANGED <<inp, out, docs, store, run, writes, now>>

NextOrder ==
    \/ \E state \in RunStates, apply \in BOOLEAN :
          StartAnyOrder(state, NoNumber, apply, inp.embedder)
    \/ \E k \in 1..MaxDocs : ScoreAny(k)
    \/ \E k \in 1..MaxDocs : WriteAny(k)
    \/ FinishAnyOrder

SpecOrder == Init /\ [][NextOrder]_vars

(***************************************************************************)
(* Claims about categorize_document (SpecCat)                              *)
(***************************************************************************)
\* what the call of Categorize was given
CatCands == filter_by_state(Catalog, inp.state)

CatCandSlugs == {CatCands[i].slug : i \in 1..Len(CatCands)}

CatHits ==
    rules_from_text_and_filename(WindowRx(RuleWindow(inp.doc.chunks, 1, 0, << >>)),
                                 inp.doc.name)

\* the hit Python's max() returns: of maximum score, the first such
IsMaxHit(hits, i) ==
    /\ \A j \in 1..Len(hits) : hits[j].score <= hits[i].score
    /\ \A j \in 1..(i - 1) : hits[j].score # hits[i].score

CatOfSlug(slug) == CatCands[CHOOSE i \in 1..Len(CatCands) : CatCands[i].slug = slug]

\* C1: in every result the status agrees with the final score the result reports:
\* accepted iff final >= 0.70, needs_review iff 0.60 <= final < 0.70,
\* unassigned iff final < 0.60.
C1_StatusMatchesReportedFinal ==
    pc = "done" =>
        /\ (out.status = "accepted") <=> (out.final >= 7000)
        /\ (out.status = "needs_review") <=> (out.final >= 6000 /\ out.final < 7000)
        /\ (out.status = "unassigned") <=> (out.final < 6000)

\* C2: when the rule engine returns a hit and the maximum-score hit names a candidate,
\* the result's slug and category are that candidate's, whatever the fused ranking,
\* and the final score is the larger of the top fused score and the rule score.
C2_FullOverride ==
    pc = "done" =>
        \A hits \in {CatHits} : \A i \in 1..Len(hits) :
            (IsMaxHit(hits, i) /\ hits[i].slug \in CatCandSlugs) =>
                LET h == hits[i]
                    c == CatOfSlug(h.slug)
                IN  /\ out.best_slug = h.slug
                    /\ out.best_display = c.display
                    /\ out.top_entity = c.top_entity
                    /\ out.state_variant = c.state_variant
                    /\ out.org_variant = c.org_variant
                    /\ out.final = Max(out.topk[1].score, h.score)
                    /\ out.rule # Nil
                    /\ out.rule.slug = h.slug
                    /\ ~out.rule.partial

\* C2 witness: a full override that goes against the fused ranking
C2_Witness ==
    /\ pc = "done"
    /\ \E i \in 1..Len(CatHits) : IsMaxHit(CatHits, i) /\ CatHits[i].slug \in CatCandSlugs
    /\ out.topk[1].slug # out.best_slug
    /\ out.topk[1].score > 0

\* C3: when the maximum-score hit names a slug outside the candidate set, the winner
\* stays the top fused candidate, never the rule's slug; the final score is the larger
\* of the top fused score and 0.9 x the rule score; the rule is recorded as partial
\* with score 0.9 x the rule score.
C3_PartialOverride ==
    pc = "done" =>
        \A hits \in {CatHits} : \A i \in 1..Len(hits) :
            (IsMaxHit(hits, i) /\ hits[i].slug \notin CatCandSlugs) =>
                LET h == hits[i]
                    boosted == (h.score * 9) \div 10
                IN  /\ out.best_slug = out.topk[1].slug
                    /\ out.best_slug # h.slug
                    /\ out.best_slug \in CatCandSlugs
                    /\ out.final = Max(out.topk[1].score, boosted)
                    /\ out.rule # Nil
                    /\ out.rule.slug = h.slug
                    /\ out.rule.partial
                    /\ out.rule.score = boosted

\* C3 witness: a rule for the other jurisdiction's slug lifts the final score
C3_Witness ==
    /\ pc = "done"
    /\ inp.state = st_ka_blank
    /\ \E i \in 1..Len(CatHits) :
          IsMaxHit(CatHits, i) /\ CatHits[i].slug = "ts_rera_certificate"
    /\ out.rule # Nil
    /\ out.rule.partial
    /\ out.final > out.topk[1].score

\* C4: the weights are (w1, 0.30, 0.30), w1 = 0 for a generic filename or a corpus
\* count >= 3, 0.20 for a count of exactly 2, 0.40 otherwise.
C4_Weights ==
    pc = "done" =>
        LET generic == is_generic_filename(inp.doc.name)
            w1 == out.weights[1]
        IN  /\ out.weights[2] = 30
            /\ out.weights[3] = 30
            /\ (generic \/ inp.dup >= 3) => w1 = 0
            /\ (~generic /\ inp.dup = 2) => w1 = 20
            /\ (~generic /\ inp.dup < 2) => w1 = 40

\* C4 witness: a meaningful filename that occurs twice gets the light weight
C4_Witness ==
    /\ pc = "done"
    /\ inp.dup = 2
    /\ inp.doc.name = name_gst
    /\ out.weights = <<20, 30, 30>>

\* C5: GST_Certificate.pdf, unique, whose text has a GSTIN and no other marker: the rule
\* engine emits dev_company_gst_pan at the capped score 0.95, the filename weight is
\* 0.40, the winner is dev_company_gst_pan and the status is accepted.
C5_GstScenario ==
    (/\ pc = "done"
     /\ inp.doc.name = name_gst
     /\ inp.doc.chunks = <<chunk_gstin>>
     /\ inp.dup <= 1) =>
        /\ \E i \in 1..Len(CatHits) :
              CatHits[i].slug = "dev_company_gst_pan" /\ CatHits[i].score = HIT_CAP
        /\ out.weights[1] = W_FULL
        /\ out.best_slug = "dev_company_gst_pan"
        /\ out.status = "accepted"

(***************************************************************************)
(* Claims about the rule engine (SpecRules)                                *)
(***************************************************************************)
Matching(k) == {i \in 1..Len(TEXT_RULES[k].regs) : TEXT_RULES[k].regs[i] \in inp.rx}

TextHitsFor(k) ==
    {i \in 1..Len(out.hits) :
        out.hits[i].why[1] = "text" /\ out.hits[i].slug = TEXT_RULES[k].slug}

\* C6: a slug's local score is 0.5 after the first matching detector plus 0.25 for each
\* further one (two give 0.75, three 1.0); the slug yields a text-rule hit iff its local
\* score is >= 0.8, and the emitted score is min(local, 0.95).
C6_TextRules ==
    /\ LocalScore(<<"A", "B", "C">>, {"A", "B", "C"}, 1, 0) = 10000
    /\ _add_hit(<< >>, "s", 10000, <<"text", "s">>)[1].score = 9500
    /\ pc = "done" =>
        \A k \in 1..Len(TEXT_RULES) :
            LET m == Cardinality(Matching(k))
            IN  /\ out.local[k] = IF m = 0 THEN 0 ELSE 5000 + 2500 * (m - 1)
                /\ (m = 2) => out.local[k] = 7500
                /\ (TextHitsFor(k) # {}) <=> (out.local[k] >= 8000)
                /\ \A i \in TextHitsFor(k) : out.hits[i].score = Min(out.local[k], 9500)

\* C6 witness: both detectors of a slug match, its local score is 0.75 and it yields no hit
C6_Witness ==
    /\ pc = "done"
    /\ \E k \in 1..Len(TEXT_RULES) :
          /\ TEXT_RULES[k].slug = "dev_company_moa_aoa_incorp"
          /\ Cardinality(Matching(k)) = 2
          /\ out.local[k] = 7500
          /\ TextHitsFor(k) = {}

(***************************************************************************)
(* Claims about filter_by_state (SpecFilter)                               *)
(***************************************************************************)
\* the categories the claim keeps
\* v spells word: its letters in either case, with nothing but blanks around them
Spells(v, word) ==
    \E i \in 1..Len(v) :
        /\ i + Len(word) - 1 <= Len(v)
        /\ \A k \in 1..Len(v) :
              IF k < i \/ k >= i + Len(word) THEN v[k] \in Whitespace
              ELSE v[k] \in {word[k - i + 1], LowerChar(word[k - i + 1])}

\* the jurisdiction a request names: a state by its code or its full name, any other
\* string itself
Requested(v) ==
    IF v = NoState THEN NoState
    ELSE IF Spells(v, TS) \/ Spells(v, TELANGANA) THEN TS
    ELSE IF Spells(v, KA) \/ Spells(v, KARNATAKA) THEN KA
    ELSE v

KeptByClaim(c) ==
    \/ c.top_entity \notin {"project_approvals_documents", "project_land_documents"}
    \/ (inp.state # NoState /\ c.state_variant = Requested(inp.state))

\* C7: filter_by_state returns, in catalog order, exactly the categories of another
\* class than approvals / land, plus those of these two classes whose recorded
\* jurisdiction is the requested one; with no jurisdiction, none of the latter.
\* The earlier copy of the function gives the same list for a request that is
\* absent, empty or spelled without blanks and not by a state's full name.
C7_FilterByState ==
    pc = "done" =>
        /\ out.current = SelectSeq(inp.cats, KeptByClaim)
        /\ (inp.state \in {NoState, << >>} \/ Requested(inp.state) = Upper(inp.state))
               => out.earlier = SelectSeq(inp.cats, KeptByClaim)

\* C7 witness: a mixed catalog, one approvals category kept and one dropped
C7_Witness ==
    /\ pc = "done"
    /\ inp.state = st_telangana
    /\ Len(inp.cats) = 2
    /\ inp.cats[1].top_entity = "project_approvals_documents"
    /\ inp.cats[1].state_variant = KA
    /\ inp.cats[2].top_entity = "project_land_documents"
    /\ inp.cats[2].state_variant = TS
    /\ out.current = <<inp.cats[2]>>

(***************************************************************************)
(* Claims about the classification run (Spec)                              *)
(***************************************************************************)
\* the catalog entry of a slug
CatalogEntry(slug) == Catalog[CHOOSE i \in 1..Len(Catalog) : Catalog[i].slug = slug]

\* C9: a classification run with apply = false performs no write; with apply = true
\* it performs exactly one update per processed document, in processing order, that
\* carries the document's chosen slug, the chosen category's top-level class,
\* organization variant and state variant, the final score as confidence, and the
\* status; when the run is over every row it fetched has been updated.
C9_ClassifyWrites ==
    pc \in {"classify", "classify_done"} =>
        /\ ~run.apply => writes = << >>
        /\ run.apply =>
              /\ Len(writes) = Len(run.results)
              /\ Len(writes) = run.i - 1
              /\ pc = "classify_done" => Len(writes) = Len(run.rows)
              /\ \A k \in 1..Len(writes) :
                    LET w   == writes[k]
                        res == run.results[k]
                        c   == CatalogEntry(res.best_slug)
                    IN  /\ w.doc_id = run.rows[k]
                        /\ res.doc_id = run.rows[k]
                        /\ \A j \in 1..Len(writes) : writes[j].doc_id = w.doc_id => j = k
                        /\ w.row.canonical_slug = res.best_slug
                        /\ w.row.top_entity = c.top_entity
                        /\ w.row.org_variant = c.org_variant
                        /\ w.row.state_variant = c.state_variant
                        /\ w.row.confidence = res.final
                        /\ w.row.status = res.status
                        /\ store[w.doc_id] = w.row

\* C9 witness: an applied run over two documents is over, one of them accepted and
\* one left unassigned
C9_Witness ==
    /\ pc = "classify_done"
    /\ run.apply
    /\ Len(run.rows) = 2
    /\ Len(writes) = 2
    /\ \E k \in 1..2 : writes[k].row.status = "accepted"
    /\ \E k \in 1..2 : writes[k].row.status = "unassigned"

(***************************************************************************)
(* Claims about the role run (SpecRoles)                                   *)
(***************************************************************************)
\* C8: a role-inference run with apply = false writes to no document.
C8_DryRoleRunWritesNothing ==
    (pc \in {"roles", "roles_done", "roles_none"} /\ ~run.apply) => writes = << >>

\* the place in the ranking of the cluster a written document belongs to
ClusterOfDoc(id) ==
    CHOOSE k \in 1..Len(run.scored) :
        \E d \in 1..Len(run.scored[k].docs) : run.scored[k].docs[d].id = id

\* the number of a cluster's documents whose stored slug is `slug`
SlugCount(cl, slug) ==
    Cardinality({d \in 1..Len(cl.docs) : cl.docs[d].canonical_slug = slug})

\* the role the claim gives the cluster ranked k-th
ClaimedRole(k) ==
    IF k = 1 THEN "developer_entity" ELSE IF k = 2 THEN "group_entity" ELSE "other_entity"

\* C10: the clusters of a role run are ranked descending by (developer-score,
\* group-score), where a TAN document adds 2 to the developer score and an
\* incorporation document adds 1 to both; the top cluster's documents are written as
\* developer_entity, the second's as group_entity, all others' as other_entity; exactly
\* one cluster is the developer, at most one the group, and no cluster has a strictly
\* larger composite key than the developer cluster.
C10_RoleAssignment ==
    (pc \in {"roles", "roles_done"} /\ run.scored # << >>) =>
        LET sc == run.scored
            n  == Len(sc)
            AsWritten(k) == RoleOf(sc[k].key, run.dev_key, run.grp_key)
        IN  /\ \A k \in 1..n :
                  /\ sc[k].dev = 2 * SlugCount(sc[k], "dev_company_tan")
                                 + SlugCount(sc[k], "dev_llp_agreement_incorp")
                  /\ sc[k].group = SlugCount(sc[k], "dev_llp_agreement_incorp")
            /\ \A k \in 1..(n - 1) :
                  \/ sc[k].dev > sc[k + 1].dev
                  \/ (sc[k].dev = sc[k + 1].dev /\ sc[k].group >= sc[k + 1].group)
            /\ \A k \in 1..n : AsWritten(k) = ClaimedRole(k)
            /\ Cardinality({k \in 1..n : AsWritten(k) = "developer_entity"}) = 1
            /\ Cardinality({k \in 1..n : AsWritten(k) = "group_entity"}) <= 1
            /\ \A k \in 1..n :
                  ~(\/ sc[k].dev > sc[1].dev
                    \/ (sc[k].dev = sc[1].dev /\ sc[k].group > sc[1].group))
            /\ \A j \in 1..Len(writes) :
                  writes[j].row.top_entity = ClaimedRole(ClusterOfDoc(writes[j].doc_id))

\* C10 witness: three clusters whose ranking reverses the order their keys first
\* appeared in, all written
C10_Witness ==
    /\ pc = "roles_done"
    /\ Len(run.scored) = 3
    /\ run.scored[1].docs[1].id = 3
    /\ run.scored[2].docs[1].id = 2
    /\ run.scored[3].docs[1].id = 1
    /\ run.scored[1].dev > run.scored[2].dev
    /\ run.scored[2].dev > run.scored[3].dev
    /\ Len(writes) = 3
    /\ writes[1].row.top_entity = "developer_entity"
    /\ writes[2].row.top_entity = "group_entity"
    /\ writes[3].row.top_entity = "other_entity"

\* the first match of one fact in the text of the chunks the run reads: it starts in
\* the first chunk that holds a match or the beginning of one that ends in a chunk read
DirectFact(chunks, f, i) ==
    LET n == IF Len(chunks) < 3 THEN Len(chunks) ELSE 3
        Begun(k) == /\ chunks[k].ids_over[f] # << >>
                    /\ \E o \in chunks[k].over : o.rx = FACT_RX[f] /\ k + o.span <= n
        has == {k \in i..n : chunks[k].ids[f] # << >> \/ Begun(k)}
    IN  IF has = {} THEN << >>
        ELSE LET k == CHOOSE x \in has : \A y \in has : x <= y
             IN  IF Begun(k) THEN chunks[k].ids_over[f] ELSE chunks[k].ids[f]

\* whether the first chunks of a document show any of the five facts (an identifier,
\* or a name with a letter, a digit or & in it)
HasFact(id) ==
    \/ \E f \in {"pan", "gstin", "llpin", "cin"} : DirectFact(docs[id].chunks, f, 1) # << >>
    \/ \E i \in 1..Len(DirectFact(docs[id].chunks, "name", 1)) :
          DirectFact(docs[id].chunks, "name", 1)[i] \in AlnumChars \cup {"&"}

\* the row of a document as the role run read it
RowAsRead(id) ==
    LET cl == run.scored[ClusterOfDoc(id)]
    IN  cl.docs[CHOOSE d \in 1..Len(cl.docs) : cl.docs[d].id = id]

\* C11: every write of a role run goes to a document of a cluster and sets top_entity
\* to the cluster's role and org_variant to the cluster's organization variant (llp
\* when a document of the cluster is an LLP agreement, company otherwise), leaves the
\* canonical slug, the state variant and the confidence as read, and preserves the
\* status, which becomes 'unassigned' only when it was absent (NULL or empty); a document with no
\* entity key is never written, and when the run is over every document of a cluster
\* has been written exactly once.
C11_RoleWriteBack ==
    pc \in {"roles", "roles_done", "roles_none"} =>
        /\ \A j \in 1..Len(writes) :
              LET w  == writes[j]
                  k  == ClusterOfDoc(w.doc_id)
                  cl == run.scored[k]
                  r  == RowAsRead(w.doc_id)
              IN  /\ HasFact(w.doc_id)
                  /\ \A i \in 1..Len(writes) : writes[i].doc_id = w.doc_id => i = j
                  /\ w.row.top_entity = ClaimedRole(k)
                  /\ w.row.org_variant =
                        IF SlugCount(cl, "dev_llp_agreement_incorp") > 0
                        THEN "llp" ELSE "company"
                  /\ \A d \in 1..Len(cl.docs) :
                        \A i \in 1..Len(writes) :
                            writes[i].doc_id = cl.docs[d].id =>
                                /\ writes[i].row.top_entity = w.row.top_entity
                                /\ writes[i].row.org_variant = w.row.org_variant
                  /\ w.row.canonical_slug = r.canonical_slug
                  /\ w.row.state_variant = r.state_variant
                  /\ w.row.confidence = r.confidence
                  /\ w.row.status = IF r.status \in {None, ""} THEN "unassigned"
                                    ELSE r.status
                  /\ store[w.doc_id] = w.row
        /\ \A id \in 1..Len(docs) :
              ~HasFact(id) => /\ \A j \in 1..Len(writes) : writes[j].doc_id # id
                              /\ \A k \in 1..Len(run.scored) :
                                    \A d \in 1..Len(run.scored[k].docs) :
                                        run.scored[k].docs[d].id # id
        /\ pc = "roles_done" =>
              \A id \in 1..Len(docs) :
                  HasFact(id) => \E j \in 1..Len(writes) : writes[j].doc_id = id

\* C11 witness: a run is over that wrote a document whose status was absent and one
\* that was accepted, and left a document with no entity key alone
C11_Witness ==
    /\ pc = "roles_done"
    /\ Len(docs) = 3
    /\ Len(writes) = 2
    /\ \E j \in 1..2 : /\ RowAsRead(writes[j].doc_id).status = None
                       /\ writes[j].row.status = "unassigned"
                       /\ writes[j].row.confidence = NoNumber
    /\ \E j \in 1..2 : /\ writes[j].row.status = "accepted"
                       /\ writes[j].row.confidence = 8500
                       /\ writes[j].row.org_variant = "llp"
    /\ \E id \in 1..3 : ~HasFact(id) /\ store[id].status = "accepted"
                        /\ store[id].top_entity = "developer_entity"

(***************************************************************************)
(* Claims about the entity key (SpecKeys)                                  *)
(***************************************************************************)
\* the normalized form of the sample names
NormalizedSample(name) ==
    IF name = name_1
    THEN <<"S","U","N","R","I","S","E"," ","B","U","I","L","D","E","R","S"," ","P","V","T">>
    ELSE IF name = name_zed THEN <<"Z","E","D"," ","H","O","M","E","S">>
    ELSE << >>

\* the first of the candidates that is not empty, with the name of its fact
RECURSIVE FirstNonEmpty(_, _)
FirstNonEmpty(cands, k) ==
    IF k > Len(cands) THEN << >>
    ELSE IF cands[k].value # << >> THEN cands[k].label \o <<":">> \o cands[k].value
         ELSE FirstNonEmpty(cands, k + 1)

\* C12: the entity key of a document is the first non-empty of PAN, GSTIN, LLPIN, CIN
\* and normalized name, in that order, where the PAN is the one found in the text or,
\* only when none is found, characters 3..12 of the GSTIN; a PAN in the text wins over
\* a GSTIN in the same text; a document with none of the five facts has no key, and a
\* document without a key is in no cluster. (The name is what the first match of the
\* name pattern captures; when that is blank its normal form is empty.)
C12_EntityKey ==
    pc = "done" =>
        LET ch    == docs[1].chunks
            pan   == DirectFact(ch, "pan", 1)
            gstin == DirectFact(ch, "gstin", 1)
            llpin == DirectFact(ch, "llpin", 1)
            cin   == DirectFact(ch, "cin", 1)
            name  == DirectFact(ch, "name", 1)
            pan_used == IF pan # << >> THEN pan
                        ELSE IF gstin # << >> THEN SubSeq(gstin, 3, 12) ELSE << >>
            key   == FirstNonEmpty(<<
                        [label |-> <<"p","a","n">>, value |-> pan_used],
                        [label |-> <<"g","s","t","i","n">>, value |-> gstin],
                        [label |-> <<"l","l","p","i","n">>, value |-> llpin],
                        [label |-> <<"c","i","n">>, value |-> cin],
                        [label |-> <<"n","a","m","e","_","k","e","y">>,
                         value |-> NormalizedSample(name)] >>, 1)
        IN  /\ out.info.key = key
            /\ (pan # << >> /\ gstin # << >>) => out.info.key = <<"p","a","n",":">> \o pan
            /\ out.info.facts.pan # pan => (pan = << >> /\ gstin # << >>)
            /\ (pan = << >> /\ gstin = << >> /\ llpin = << >> /\ cin = << >> /\ name = << >>)
                  => out.info.key = NoKey
            /\ out.info.key = NoKey <=> out.clusters = << >>
            /\ out.info.key # NoKey =>
                  /\ Len(out.clusters) = 1
                  /\ out.clusters[1].key = key
                  /\ Len(out.clusters[1].docs) = 1

\* C12 witness: one chunk shows a PAN and the GSTIN of another PAN, and the document is
\* clustered under the PAN of the text
C12_Witness ==
    /\ pc = "done"
    /\ Len(docs[1].chunks) = 1
    /\ docs[1].chunks[1].ids.pan = pan_2
    /\ docs[1].chunks[1].ids.gstin = gstin_1
    /\ out.info.key = <<"p","a","n",":">> \o pan_2
    /\ Len(out.clusters) = 1

(***************************************************************************)
(* Claims about failures (SpecFaults)                                      *)
(***************************************************************************)
\* a run has stopped: it reached its last line or ended with an exception
RunStopped == pc \in {"classify_done", "roles_done", "roles_none", "failed"}

\* C13: a failed store update for one document does not abort the run: whenever a
\* run has stopped after an update failed, every document of the batch has been
\* processed, and the failed document is an item of the run's summary.
C13_FailedUpdateDoesNotAbort ==
    (RunStopped /\ out # Nil /\ out.raised = "update_match") =>
        /\ pc # "failed"
        /\ run.kind = "classify" => Len(run.results) = Len(run.rows)
        /\ run.kind = "roles" => run.c > Len(run.scored)

\* C20: with a catalog whose structure is neither a list nor an object with a
\* categories list, no classification run gets as far as fetching the documents:
\* load_sot raises, so that no run ends in the scoring of a document, and nothing
\* is written by a classification run; and load_sot returns the whole catalog or
\* raises, never a part of it.
C20_BadCatalogEndsRun ==
    /\ inp.sot \notin {"list", "categories_list"} =>
          /\ run = Nil \/ run.kind = "roles"
          /\ pc \notin {"classify", "classify_done"}
          /\ pc = "failed" => out.raised \in {"ValueError", "TypeError", "update_match"}
    /\ inp.sot \in {"list", "categories_list"} => load_sot(inp.sot).cats = Catalog
    /\ load_sot(inp.sot).raised # None => load_sot(inp.sot).cats = << >>

(***************************************************************************)
(* Claims about a repeated classification (SpecTwice)                      *)
(***************************************************************************)
\* the second run gives every document it has processed the result the first run
\* gave it, and fetches the rows the first run fetched
SameResults ==
    /\ run.rows = out.rows
    /\ Len(run.results) <= Len(out.results)
    /\ \A k \in 1..Len(run.results) : run.results[k] = out.results[k]
    /\ pc = "classify_done" => run.results = out.results

\* C14: a second classification run over an unchanged corpus, with the jurisdiction
\* and the limit of the first, gives every document the result the first run gave it,
\* also when the first run applied its results; when the second run applies its
\* results, the six classification columns of every fetched row hold the values of
\* the first run's result, so after two applied runs they are as after one, while
\* updated_at of every fetched row is the time of the second write, later than the
\* first; the other rows are as they were.
C14_ClassifyIdempotent ==
    (pc \in {"classify", "classify_done"} /\ out # Nil) =>
        /\ SameResults
        /\ (pc = "classify_done" /\ run.apply) =>
              \A i \in 1..Len(store) :
                  IF \E k \in 1..Len(run.rows) : run.rows[k] = i
                  THEN /\ \A k \in 1..Len(run.rows) : run.rows[k] = i =>
                             Columns(store[i]) = ClassifyCall(out.results[k]).row
                       /\ out.apply => Columns(store[i]) = Columns(out.store[i])
                       /\ store[i].updated_at > out.store[i].updated_at
                  ELSE store[i] = out.store[i]

\* C14 as stated: the results are identical, and applying twice leaves the store in
\* the state applying once left it in
C14_IdempotentAsStated ==
    (pc = "classify_done" /\ out # Nil) =>
        /\ SameResults
        /\ (out.apply /\ run.apply) => store = out.store

\* C14 witness: two applied runs over two documents with one name are over; the rows
\* hold the same six values as after the first run and a later time
C14_Witness ==
    /\ pc = "classify_done"
    /\ out # Nil
    /\ out.apply
    /\ run.apply
    /\ Len(docs) = 2
    /\ Lower(docs[1].name) = Lower(docs[2].name)
    /\ Len(run.results) = 2
    /\ run.results[1].weights[1] = W_LIGHT
    /\ \A i \in 1..2 : /\ Columns(store[i]) = Columns(out.store[i])
                        /\ out.store[i].updated_at = i
                        /\ store[i].updated_at = 2 + i

(***************************************************************************)
(* Claims about the order of the documents of a run (SpecOrder)            *)
(***************************************************************************)
\* the result a run over plan r gives the k-th row it fetched
ResultAt(r, k) == classify_row([r EXCEPT !.i = k])

RECURSIVE InCodeOrder(_, _, _, _)
\* the table after the loop of run() from its j-th row on: ascending id, each update
\* at the next tick of the clock, which shows t
InCodeOrder(s, r, j, t) ==
    IF j > Len(r.rows) THEN s
    ELSE InCodeOrder([s EXCEPT ![r.rows[j]] = Stamped(ClassifyCall(ResultAt(r, j)).row, t)],
                     r, j + 1, t + 1)

\* the table a run of the code leaves when it applies its results to the corpus as
\* ingested
AfterCodeOrder == InCodeOrder([i \in 1..Len(docs) |-> FreshRow], run, 1, 1)

\* the snapshots of a run are those of its start; the result of a document is the
\* one its own name and chunks and the snapshots give, whatever has been scored or
\* written before; a committed update has put that result into the document's row
\* and the time of the update into its updated_at; no other row has changed; and a
\* finished run has given the six columns of every row the values the code's own
\* order gives them
SnapshotsAndOrders ==
    pc \in {"classify", "classify_done"} =>
        /\ run.fname_cnts = filename_counts
        /\ run.cat_vecs = build_category_vectors(run.cats, inp.embedder)
        /\ \A k \in 1..Len(run.rows) :
              out.res[k] # Nil =>
                  out.res[k] =
                      categorize_document(docs[run.rows[k]], run.cats, run.cat_vecs,
                                          CountOf(run.fname_cnts,
                                                  Lower(docs[run.rows[k]].name)),
                                          TOPK_SHOW)
        /\ \A k \in 1..Len(run.rows) :
              IF k \in out.written
              THEN Columns(store[run.rows[k]]) = ClassifyCall(out.res[k]).row
              ELSE store[run.rows[k]] = FreshRow
        /\ \A j \in 1..Len(writes) :
              /\ writes[j].row.updated_at = j
              /\ store[writes[j].doc_id] = writes[j].row
        /\ (pc = "classify_done" /\ run.apply) =>
              \A i \in 1..Len(store) : Columns(store[i]) = Columns(AfterCodeOrder[i])

\* a step of the run leaves the snapshots and the fetched rows alone and changes at
\* most one row, the row of the document whose update it commits
TurnTouchesOneRow ==
    pc = "classify" =>
        /\ run' = run
        /\ \A id \in 1..Len(store) :
              store'[id] # store[id] =>
                  \E k \in out'.written \ out.written :
                      /\ run.rows[k] = id
                      /\ out'.written = out.written \cup {k}

\* C16: in a classification run the filename histogram and the category vectors are
\* computed before the first document is scored and never modified; each document's
\* result and write depend only on its own name and chunks and these snapshots, and
\* the write touches only the document's own row; so every processing order and
\* interleaving gives every document the same result and the same six
\* classification columns. Its updated_at is the time of its write and follows the
\* order of the writes.
C16_SnapshotsAndIndependence == []SnapshotsAndOrders /\ [][TurnTouchesOneRow]_vars

\* C16 as stated: the final state of the store is the same for every processing
\* order and interleaving, the one of the code's own order
C16_SameStoreAsStated ==
    (pc = "classify_done" /\ run.apply) => store = AfterCodeOrder

\* C16 witness: an applied run over two documents with one name is over; the second
\* document was written first, both have the weight for a name that occurs twice, and
\* the six columns are those of the code's order
C16_Witness ==
    /\ pc = "classify_done"
    /\ run.apply
    /\ Len(run.rows) = 2
    /\ Lower(docs[1].name) = Lower(docs[2].name)
    /\ run.fname_cnts[Lower(docs[1].name)] = 2
    /\ out.res[1].weights[1] = W_LIGHT
    /\ out.res[2].weights[1] = W_LIGHT
    /\ Len(writes) = 2
    /\ writes[1].doc_id = 2
    /\ store[2].updated_at < store[1].updated_at
    /\ \A i \in 1..2 : Columns(store[i]) = Columns(AfterCodeOrder[i])

(***************************************************************************)
(* Claims about a role run that finds no entity (SpecRoles)                *)
(***************************************************************************)
\* no document of the corpus can be tied to an entity
NoEntityKey ==
    \A i \in 1..Len(docs) :
        entity_key(extract_facts(FirstChunks(docs[i].chunks, FACT_CHUNKS))) = NoKey

\* a role run that has a cluster or a write, or that ends with roles assigned, is over
\* a corpus with an entity key: without one it has no cluster and no write and ends as
\* "nothing to assign"; no other run ends so
NothingToAssign ==
    /\ (/\ pc \in {"roles", "roles_done", "roles_none"}
        /\ (run.scored # << >> \/ writes # << >> \/ pc = "roles_done")) => ~NoEntityKey
    /\ pc = "roles_none" => NoEntityKey

\* no step over such a corpus changes a row
NoKeyNoChange == store' # store => ~NoEntityKey

\* C17: when role inference finds no entity key for any document, the run writes to
\* no document, raises nothing and ends with the "nothing to assign" outcome, which
\* no run with a cluster ends with.
C17_NoClusterNoOp == []NothingToAssign /\ [][NoKeyNoChange]_vars

\* C17 witness: a role run over two categorized documents without identifiers has
\* ended as "nothing to assign"
C17_Witness ==
    /\ pc = "roles_none"
    /\ Len(docs) = 2
    /\ NoEntityKey
    /\ writes = << >>
    /\ now = 1
    /\ \A i \in 1..2 : store[i].canonical_slug = "dev_company_tan"

(***************************************************************************)
(* Claims about the scanned document without text (SpecCat)                *)
(***************************************************************************)
\* C18: scan0001.pdf with empty chunk text counts as generic, its filename weight is
\* 0, its keyword and embedding scores are 0 and no rule fires, so that the final
\* score is 0.0 and the status is unassigned.
C18_ScanScenario ==
    (/\ pc = "done"
     /\ inp.doc.name = name_scan
     /\ inp.doc.chunks = <<chunk_empty>>) =>
        /\ out.is_generic_name
        /\ out.weights[1] = W_NONE
        /\ out.s2 = 0
        /\ out.s3 = 0
        /\ out.rule = Nil
        /\ out.final = 0
        /\ out.status = "unassigned"

(***************************************************************************)
(* Claims about a run without an embedding model (Spec)                    *)
(***************************************************************************)
\* the embedding score of document i for the k-th candidate of the run
EmbeddingScore(i, k) ==
    ScoreCategory(docs[i], run.cats[k], doc_vector_mean(docs[i].chunks, VEC_MAX_CHUNKS),
                  run.cat_vecs, <<W_FULL, W_KW, W_EMB>>).s3

\* C19: when no embedding model can be loaded, build_category_vectors returns an empty
\* map, the embedding score of every document for every category is 0, and the run
\* ends with one result for every document it fetched.
C19_NoEmbedder ==
    (~inp.embedder /\ pc \in {"classify", "classify_done"}) =>
        /\ build_category_vectors(run.cats, inp.embedder) = {}
        /\ run.cat_vecs = {}
        /\ \A i \in 1..Len(docs) : \A k \in 1..Len(run.cats) : EmbeddingScore(i, k) = ZeroF
        /\ \A k \in 1..Len(run.results) :
              /\ run.results[k].s3 = 0
              /\ \A t \in 1..Len(run.results[k].topk) : run.results[k].topk[t].s3_emb = 0
        /\ pc = "classify_done" =>
              /\ Len(run.results) = Len(run.rows)
              /\ \A k \in 1..Len(run.rows) : run.results[k].doc_id = run.rows[k]

\* C19 witness: a run without a model is over two documents, the first of which has
\* chunk vectors and would score on embeddings if the categories had vectors
C19_Witness ==
    /\ ~inp.embedder
    /\ pc = "classify_done"
    /\ Len(run.results) = 2
    /\ doc_vector_mean(docs[1].chunks, VEC_MAX_CHUNKS)
    /\ run.results[1].s3 = 0
    /\ \E k \in 1..Len(run.cats) :
          LtF(ZeroF, ScoreCategory(docs[1], run.cats[k], TRUE,
                                   {run.cats[j].slug : j \in 1..Len(run.cats)},
                                   <<W_FULL, W_KW, W_EMB>>).s3)

(***************************************************************************)
(* Claims about the settled store (SpecStore)                              *)
(***************************************************************************)
\* every row has one of the four statuses
StatusInSet == \A i \in 1..Len(store) : store[i].status \in STATUSES

\* the step is a manual override of document i
OverrideOf(i) ==
    /\ pc \in {"idle", "classify_done", "roles_done", "roles_none"}
    /\ pc' = pc
    /\ Len(writes') = 1
    /\ writes'[1].doc_id = i
    /\ writes'[1].row.status = "needs_review"
    /\ writes'[1].row.confidence = NoNumber
    /\ store'[i] = writes'[1].row

\* a row has no confidence after a step only if the step is a manual override of it,
\* or if it had none before and the step has kept its status
NullOnlyByOverride ==
    \A i \in 1..Len(store) :
        store'[i].confidence = NoNumber =>
            \/ OverrideOf(i)
            \/ store[i].confidence = NoNumber /\ store'[i].status = store[i].status

\* C15: over a store in which it holds at the start, after any sequence of applied
\* classification runs, role runs and manual overrides the status of every document is
\* one of unassigned, needs_review, accepted, duplicate, and a document has no
\* confidence only if a manual override was the last to set its status.
C15_StatusAndConfidence == []StatusInSet /\ [][NullOnlyByOverride]_vars

\* C15 witness: after a manual override of document 1 a role run has written to it and
\* kept its status and its missing confidence, while a classification has given
\* document 2 a score
C15_Witness ==
    /\ pc = "roles_done"
    /\ Len(store) = 2
    /\ \E k \in 1..Len(writes) :
          /\ writes[k].doc_id = 1
          /\ writes[k].row.top_entity \in {"developer_entity", "other_entity"}
          /\ store[1] = writes[k].row
    /\ store[1].confidence = NoNumber
    /\ store[1].status = "needs_review"
    /\ store[2].confidence # NoNumber
    /\ store[2].status \in {"accepted", "needs_review", "unassigned"}
    /\ store[2] \notin SettledRows

(***************************************************************************)
(* Claims about the bank-statement router (SpecRules)                      *)
(***************************************************************************)
\* the hits of the bank-statement router among the pooled hits
RouterHits == {i \in 1..Len(out.hits) : out.hits[i].why[1] = "bank"}

RouterHitsFor(slug) == {i \in RouterHits : out.hits[i].slug = slug}

\* a company or LLP suffix, or a GSTIN, CIN or LLPIN pattern, in the text
CorporateMarker == inp.rx \cap {"COMPANY_MARKERS_RX", "GSTIN_RX", "CIN_RX", "LLPIN_RX"} # {}

\* C21: the router emits no hit unless the text has a bank-statement marker; with a
\* marker and a corporate marker it emits exactly one hit of score 0.9 for each of the
\* company, LLP and partnership bank-statement slugs and none for the director slug;
\* with a marker and no corporate marker it emits exactly one hit of score 0.9 for the
\* director slug and no other; entity and director hits never come together.
C21_BankRouter ==
    pc = "done" =>
        /\ "BANK_STMT_RX" \notin inp.rx => RouterHits = {}
        /\ \A i \in RouterHits : out.hits[i].score = 9000
        /\ ("BANK_STMT_RX" \in inp.rx /\ CorporateMarker) =>
              /\ \A s \in {"dev_company_bank_stmt", "dev_llp_bank_stmt",
                           "dev_partnership_bank_stmt"} :
                    Cardinality(RouterHitsFor(s)) = 1
              /\ RouterHitsFor("directors_bank_stmt_1y") = {}
              /\ Cardinality(RouterHits) = 3
        /\ ("BANK_STMT_RX" \in inp.rx /\ ~CorporateMarker) =>
              /\ Cardinality(RouterHitsFor("directors_bank_stmt_1y")) = 1
              /\ Cardinality(RouterHits) = 1
        /\ ~(/\ RouterHitsFor("directors_bank_stmt_1y") # {}
             /\ \E i \in RouterHits : out.hits[i].slug # "directors_bank_stmt_1y")

\* C21 witness: a statement whose only corporate marker is a CIN got the three entity hits
C21_Witness ==
    /\ pc = "done"
    /\ "BANK_STMT_RX" \in inp.rx
    /\ "CIN_RX" \in inp.rx
    /\ inp.rx \cap {"COMPANY_MARKERS_RX", "GSTIN_RX", "LLPIN_RX"} = {}
    /\ Cardinality(RouterHits) = 3
    /\ \E i \in RouterHits : out.hits[i].slug = "dev_llp_bank_stmt" /\ out.hits[i].score = 9000

(***************************************************************************)
(* Claims about the ranking (SpecCat)                                      *)
(***************************************************************************)
\* the fused scores of the candidates in their order, as the call computed them
RECURSIVE FusedUpTo(_)
FusedUpTo(k) ==
    IF k = 0 THEN << >>
    ELSE Append(FusedUpTo(k - 1),
                ScoreCategory(inp.doc, CatCands[k],
                              doc_vector_mean(inp.doc.chunks, VEC_MAX_CHUNKS),
                              build_category_vectors(CatCands, inp.embedder),
                              out.weights).final)

\* candidate a comes before candidate b under the fused scores f: a higher score, or
\* the same and an earlier place among the candidates
RankedBefore(f, a, b) == LtF(f[b], f[a]) \/ (f[a] = f[b] /\ a < b)

\* the place of the k-th candidate in the ranking
RankOf(f, k) == 1 + Cardinality({b \in 1..Len(f) : RankedBefore(f, b, k)})

PlaceOfSlug(slug) == CHOOSE k \in 1..Len(CatCands) : CatCands[k].slug = slug

\* C22: the candidates are ranked by descending fused score, ties in candidate order;
\* without a rule hit the winner is the first candidate that attains the maximum fused
\* score, and the top-K list is the first K entries of the ranking (all of them when
\* there are fewer than K).
C22_Ranking ==
    pc = "done" =>
        \A f \in {FusedUpTo(Len(CatCands))} :
        /\ Len(out.topk) = Min(inp.topk, Len(f))
        /\ \A t \in 1..Len(out.topk) :
              /\ out.topk[t].rank = t
              /\ out.topk[t].slug \in CatCandSlugs
              /\ RankOf(f, PlaceOfSlug(out.topk[t].slug)) = t
              /\ out.topk[t].score = Round3(f[PlaceOfSlug(out.topk[t].slug)])
        /\ out.rule = Nil =>
              /\ RankOf(f, PlaceOfSlug(out.best_slug)) = 1
              /\ \A k \in 1..Len(f) :
                    /\ LeF(f[k], f[PlaceOfSlug(out.best_slug)])
                    /\ f[k] = f[PlaceOfSlug(out.best_slug)] =>
                          PlaceOfSlug(out.best_slug) <= k

\* C22 witness: no rule fired, two rows are asked for and there are three candidates;
\* two of them tie below the first, the earlier one is listed second and the later
\* one is cut off
C22_Witness ==
    /\ pc = "done"
    /\ out.rule = Nil
    /\ inp.topk = 2
    /\ Len(CatCands) = 3
    /\ Len(out.topk) = 2
    /\ \E f \in {FusedUpTo(Len(CatCands))} : \E a, b, c \in 1..Len(f) :
          /\ b < c
          /\ LtF(f[b], f[a])
          /\ f[b] = f[c]
          /\ LtF(ZeroF, f[b])
          /\ out.best_slug = CatCands[a].slug
          /\ out.topk[1].slug = CatCands[a].slug
          /\ out.topk[2].slug = CatCands[b].slug

(***************************************************************************)
(* Claims about the organisation variant of a cluster (SpecVariant)        *)
(***************************************************************************)
\* a member slug carries the marker
MemberCarries(marker) == \E i \in 1..Len(inp.slugs) : Contains(inp.slugs[i], marker)

\* a member other than the first and the last has the slug "llp" (no slug has a blank)
InnerLlpSlug == \E i \in 2..(Len(inp.slugs) - 1) : inp.slugs[i] = slug_llp

\* C23 as stated: the variant is llp if a member slug carries an LLP-agreement marker,
\* otherwise partnership if a member slug carries a partnership-deed marker, otherwise
\* company; a cluster without either marker always gets company.
C23_OrgVariantAsStated ==
    pc = "done" =>
        out.variant = IF MemberCarries(in_llp_agreement) THEN "llp"
                      ELSE IF MemberCarries(in_partnership_deed) THEN "partnership"
                      ELSE "company"

\* C23 amended: the variant is llp if a member slug carries "llp_agreement" or an inner
\* member has the slug "llp"; otherwise partnership if a member slug carries
\* "partnership", with or without "_deed"; otherwise company.
C23_OrgVariant ==
    pc = "done" =>
        out.variant = IF MemberCarries(in_llp_agreement) \/ InnerLlpSlug THEN "llp"
                      ELSE IF MemberCarries(in_partnership) THEN "partnership"
                      ELSE "company"

\* C23 witness: a cluster whose slugs name a partnership without a deed, and no LLP
\* agreement, got the variant partnership
C23_Witness ==
    /\ pc = "done"
    /\ \E i \in 1..Len(inp.slugs) : inp.slugs[i] = slug_partnership_tan
    /\ ~MemberCarries(in_partnership_deed)
    /\ ~MemberCarries(in_llp_agreement)
    /\ out.variant = "partnership"

(***************************************************************************)
(* Claims about rule hits of one score (SpecCat)                           *)
(***************************************************************************)
\* the hits of maximum score
TopHits == {i \in 1..Len(CatHits) : \A j \in 1..Len(CatHits) : CatHits[j].score <= CatHits[i].score}

\* C24: when several rule hits share the maximum score and one of them names a slug of
\* the filtered candidates (the filename token rera gives both jurisdiction variants
\* 0.85), the override is a full one for either jurisdiction: the winner is a candidate
\* slug that a hit of maximum score names, whatever the order of the hits.
C24_TiedHitsFullOverride ==
    (/\ pc = "done"
     /\ Cardinality(TopHits) >= 2
     /\ \E i \in TopHits : CatHits[i].slug \in CatCandSlugs) =>
        /\ out.rule # Nil
        /\ ~out.rule.partial
        /\ out.best_slug \in CatCandSlugs
        /\ \E i \in TopHits : CatHits[i].slug = out.best_slug

(***************************************************************************)
(* Claims about the component scores of a result (SpecCat)                 *)
(***************************************************************************)
\* the scores of the chosen category, as the call computed them
ChosenScores ==
    ScoreCategory(inp.doc, CatOfSlug(out.best_slug),
                  doc_vector_mean(inp.doc.chunks, VEC_MAX_CHUNKS),
                  build_category_vectors(CatCands, inp.embedder), out.weights)

\* C25: in every result s1, s2 and s3 are the filename, keyword and embedding scores of
\* the chosen category best_slug, also when a rule forces a slug other than the top
\* fused candidate.
C25_ScoresOfChosen ==
    pc = "done" =>
        /\ out.s1 = Round3(ChosenScores.s1)
        /\ out.s2 = Round3(ChosenScores.s2)
        /\ out.s3 = Round3(ChosenScores.s3)

====
